---- MODULE Spec2Model ----
(***************************************************************************)
(* A model of the transaction memory pool (package mempool): the Pool      *)
(* struct, its Add / Remove / RemoveStale / Verify operations and the      *)
(* helpers they call, and of the peer session (package network): the       *)
(* TCPPeer struct, its handshake, its send queues and its Disconnect, each *)
(* translated statement by statement.  Every specification moves the       *)
(* variables of one component and leaves the others at their initial       *)
(* values.                                                                 *)
(***************************************************************************)
EXTENDS Integers, Naturals, Sequences, FiniteSets, TLC

(***************************************************************************)
(* Bounds of the model.                                                    *)
(***************************************************************************)
\* number of distinct transactions the callers may submit
NumTx == 5
\* number of calls made on one pool
MaxCalls == 5
\* number of calls made on one pool where Verify is among the calls
MaxOpsCalls == 4
\* number of calls of handshake methods made on one peer
MaxShakes == 6
\* number of enqueue calls made on one peer
MaxSends == 2
\* largest capacity handed to NewMemPool
MaxCapacity == 3
\* width of the fixed-point amount in the model (int64 in the program)
Fixed8Bits == 8

(***************************************************************************)
(* The transactions of the model.  A transaction is identified by its      *)
(* hash; hashes are the numbers 1..NumTx.                                  *)
(***************************************************************************)
Hashes == 1..NumTx

Senders == {1, 2}

\* the balances Feer.GetUtilityTokenBalance may report
Balances == {8, 100}

\* the low-priority thresholds of the Feers handed to Add
Thresholds == {0, 21}

\* Feer.IsLowPriority: the network fee is below the policy threshold
IsLowPriority(threshold, fee) == fee < threshold

\* the hashes of the transactions submitted where Verify is among the calls
OpsHashes == {1, 3, 4, 6, 9}

\* the hashes of the transactions whose items CompareTo is applied to
CompareHashes == {1, 2, 7, 8}

\* the largest Fixed8 (math.MaxInt64 in the program)
MaxFixed8 == 2 ^ (Fixed8Bits - 1) - 1

TxOf(h) ==
    CASE h = 1 -> [Sender |-> 1, SystemFee |-> 0, NetworkFee |-> 10, Size |-> 1, Inputs |-> <<1>>]
      [] h = 2 -> [Sender |-> 1, SystemFee |-> 0, NetworkFee |-> 20, Size |-> 1, Inputs |-> <<4, 2>>]
      [] h = 3 -> [Sender |-> 2, SystemFee |-> 0, NetworkFee |-> 30, Size |-> 1, Inputs |-> << >>]
      [] h = 4 -> [Sender |-> 2, SystemFee |-> 0, NetworkFee |-> 5,  Size |-> 1, Inputs |-> <<1>>]
      [] h = 5 -> [Sender |-> 1, SystemFee |-> 2, NetworkFee |-> 25, Size |-> 1, Inputs |-> <<3>>]
      [] h = 6 -> [Sender |-> 2, SystemFee |-> 1, NetworkFee |-> 4,  Size |-> 2, Inputs |-> << >>]
      [] h = 9 -> [Sender |-> 1, SystemFee |-> MaxFixed8, NetworkFee |-> 1, Size |-> 1, Inputs |-> << >>]
      [] OTHER -> [Sender |-> 1, SystemFee |-> 0, NetworkFee |-> 20, Size |-> 2, Inputs |-> <<2>>]

\* the table of the transactions, and the transaction with hash h
Transactions == [h \in Hashes \cup OpsHashes \cup CompareHashes |-> TxOf(h)]

Tx(h) == Transactions[h]

(***************************************************************************)
(* util.Fixed8: a signed integer of Fixed8Bits bits; Go's + and - wrap.    *)
(***************************************************************************)
Fixed8Wrap(x) ==
    LET m == 2 ^ Fixed8Bits
        r == x % m
    IN  IF r >= m \div 2 THEN r - m ELSE r

Fixed8Add(a, b) == Fixed8Wrap(a + b)

Fixed8Sub(a, b) == Fixed8Wrap(a - b)

\* Fixed8.CompareTo: negative, zero or positive
Fixed8CompareTo(f, g) == IF f < g THEN -1 ELSE IF f > g THEN 1 ELSE 0

\* Uint256.CompareTo on transaction hashes
HashCompareTo(a, b) == IF a < b THEN -1 ELSE IF a > b THEN 1 ELSE 0

\* Transaction.FeePerByte: network fee divided by the serialized length
FeePerByte(h) == Tx(h).NetworkFee \div Tx(h).Size

\* Input.Cmp: inputs are totally ordered
InputCmp(a, b) == IF a < b THEN -1 ELSE IF a > b THEN 1 ELSE 0

(***************************************************************************)
(* item and item.CompareTo.  The timeStamp of an item is written by Add    *)
(* and read nowhere, so an item is its transaction and its priority class. *)
(***************************************************************************)
Item(h, low) == [txn |-> h, isLowPrio |-> low]

\* CompareTo with the hashes compared the other way round
CompareToAscendingHash(p, otherP) ==
    IF ~p.isLowPrio /\ otherP.isLowPrio THEN 1
    ELSE IF p.isLowPrio /\ ~otherP.isLowPrio THEN -1
    ELSE IF Fixed8CompareTo(FeePerByte(p.txn), FeePerByte(otherP.txn)) # 0
         THEN Fixed8CompareTo(FeePerByte(p.txn), FeePerByte(otherP.txn))
    ELSE IF Fixed8CompareTo(Tx(p.txn).NetworkFee, Tx(otherP.txn).NetworkFee) # 0
         THEN Fixed8CompareTo(Tx(p.txn).NetworkFee, Tx(otherP.txn).NetworkFee)
    ELSE HashCompareTo(p.txn, otherP.txn)

CompareTo(p, otherP) ==
    IF ~p.isLowPrio /\ otherP.isLowPrio THEN 1
    ELSE IF p.isLowPrio /\ ~otherP.isLowPrio THEN -1
    ELSE IF Fixed8CompareTo(FeePerByte(p.txn), FeePerByte(otherP.txn)) # 0
         THEN Fixed8CompareTo(FeePerByte(p.txn), FeePerByte(otherP.txn))
    ELSE IF Fixed8CompareTo(Tx(p.txn).NetworkFee, Tx(otherP.txn).NetworkFee) # 0
         THEN Fixed8CompareTo(Tx(p.txn).NetworkFee, Tx(otherP.txn).NetworkFee)
    ELSE HashCompareTo(otherP.txn, p.txn)

(***************************************************************************)
(* The state of a Pool.                                                    *)
(***************************************************************************)
VARIABLES
    verifiedMap,    \* map[util.Uint256]*item: a function from the stored hashes to items
    verifiedTxes,   \* items: the sequence of pooled items
    inputs,         \* []*transaction.Input: the inputs of the pooled transactions
    fees,           \* map[util.Uint160]utilityBalanceAndFees
    capacity,       \* the capacity given to NewMemPool
    last,           \* the last call on the pool and what it returned
    calls           \* the number of calls made so far

poolVars == <<verifiedMap, verifiedTxes, inputs, fees, capacity, last, calls>>

\* the arguments and the results of a function that is checked on its own
VARIABLES args

NoArgs == [f |-> "none"]

(***************************************************************************)
(* The state of a TCPPeer.                                                 *)
(***************************************************************************)
VARIABLES
    handShake,      \* handShakeStage: the set of the bits that are set
    done,           \* chan struct{}: TRUE once it is closed
    finale,         \* sync.Once: "fresh", "running" (its function runs) or "done"
    sendQ,          \* chan []byte: the buffered messages, oldest first
    p2pSendQ,       \* chan []byte
    hpSendQ,        \* chan []byte
    closes,         \* how often close(p.done) and p.conn.Close() were executed, and
                    \* the caller whose Disconnect was invoked first
    unregister,     \* the errors of the peerDrops sent to p.server.unregister
    qpc,            \* handleQueues: the statement it is at
    qmsg,           \* handleQueues: its local msg, with the queue it was taken from
    p2pSkipCounter, \* handleQueues: its local p2pSkipCounter modulo p2pSkipDivisor
    iter,           \* hpSendQ, p2pSendQ and done as they were when the iteration of
                    \* handleQueues began
    written,        \* the messages handleQueues has written to conn, with their queues
    rpc,            \* handleConn: the statement it is at
    dpc,            \* for each caller of Disconnect the statement it is at
    enq,            \* the call of putPacketIntoQueue in progress
    ret,            \* the last call on the peer that returned, and its result
    sends,          \* the number of enqueue calls made so far
    shakes,         \* the number of calls of handshake methods and of HandlePong made so far
    decoded,        \* handleConn: the result of its last msg.Decode
    rerr,           \* handleConn: its local err
    spc,            \* StartProtocol: the statement it is at
    pingSent,       \* the field pingSent
    keepalive,      \* how many pings SendPing has counted and how many Pongs
                    \* HandlePong has accepted so far
    pingTimer,      \* the field pingTimer: "nil", or the state of the timer it points to
    lastBlockIndex  \* the field lastBlockIndex

peerVars == <<handShake, done, finale, sendQ, p2pSendQ, hpSendQ, closes, unregister,
              qpc, qmsg, p2pSkipCounter, iter, written, rpc, dpc, enq, ret, sends, shakes,
              decoded, rerr, spc, pingSent, keepalive, pingTimer, lastBlockIndex>>

(***************************************************************************)
(* The state of the DAOs.  The objects live in three heaps, and a          *)
(* reference is an index into its heap.                                    *)
(***************************************************************************)
VARIABLES
    stores,         \* the stores: the backend store and the MemCachedStores, each with
                    \* its parent (0: it has none) and the pairs of its own layer
    maps,           \* the Go maps that the Cached DAOs hold
    daos,           \* the DAOs: every Simple and every Cached that was constructed
    daoRet,         \* the last call on a DAO and what it returned
    daoCalls,       \* the number of calls made on DAOs so far
    scope,          \* the last DAO that GetWrapped returned to a caller, its parent and
                    \* what the reads through the parent returned before the call, for as
                    \* long as nothing but Put and Delete calls on that DAO has followed
    persisted,      \* the DAO whose Persist returned without an error and that no
                    \* write has followed (0: there is none)
    migration,      \* the last MigrateNEP5Balances: its DAO, from, to and the accounts
                    \* whose balances had a tracker for from, for as long as nothing
                    \* but Persist calls on that DAO has followed
    ledger          \* the Simple that stores the blocks: Version.P2PSigExtensions, and
                    \* what Store.Get returns for the keys with the prefixes DataBlock,
                    \* DataTransaction and STNotification

daoVars == <<stores, maps, daos, daoRet, daoCalls, scope, persisted, migration, ledger>>

(***************************************************************************)
(* The state of a Trie.                                                    *)
(***************************************************************************)
VARIABLES
    trie,           \* the Trie: its root node and the serialized nodes of its Store
    entries,        \* the pairs of key and value that the trie was built from
    trieRet,        \* the last call on the trie and what it returned
    trieCalls       \* the number of calls made on the trie so far

trieVars == <<trie, entries, trieRet, trieCalls>>

vars == <<poolVars, args, peerVars, daoVars, trieVars>>

\* a HashNode and the empty one
HashNode(h) == [type |-> "Hash", hash |-> h]
EmptyHash == HashNode(<< >>)
NoTrieCall == [op |-> "NewTrie"]

\* NewTrie(NewHashNode(util.Uint256{}), false, store) over an empty store
NewEmptyTrie ==
    /\ trie = [root |-> EmptyHash, Store |-> {}]
    /\ entries = {}
    /\ trieRet = NoTrieCall
    /\ trieCalls = 0

\* the script hashes and the objects that the calls are made with
NumAccounts == 1
NumValues == 2
ScriptHashes == 1..NumAccounts
Values == 1..NumValues

\* the kinds of entities; each has its key prefix in the store
Kinds == {"account", "contract", "balances", "transfers", "storage"}
Keys == Kinds \X ScriptHashes

\* a key that a layer holds no pair for, and the mark of a deleted key
NoPair == <<"none", 0>>
Deleted == <<"deleted", 0>>
\* a map that holds nothing: cd.accounts[hash] is nil for every hash
Nil == 0
EmptyMap == [h \in ScriptHashes |-> Nil]
EmptyLayer == [k \in Keys |-> NoPair]

Store(parent) == [parent |-> parent, mem |-> EmptyLayer]
\* a DAO; over is the DAO that it was made from by GetWrapped or by NewCached
\* (0: it was made by NewSimple), which the program does not store
SimpleDAO(store, over) == [kind |-> "Simple", Store |-> store, over |-> over]
CachedDAO(dao, accounts, contracts, balances, transfers, over) ==
    [kind |-> "Cached", DAO |-> dao, accounts |-> accounts, contracts |-> contracts,
     balances |-> balances, transfers |-> transfers, dropNEP5Cache |-> FALSE, over |-> over]

NoDaoCall == [op |-> "NewSimple", dao |-> 1, n |-> 0, err |-> "nil"]
NoScope == [wrapped |-> 0]
NoMigration == [dao |-> 0]

\* the hashes of blocks and of transactions; the last one is the hash of a block
NumLedgerHashes == 4
LedgerHashes == 1..NumLedgerHashes
LedgerKeys == {"DataBlock", "DataTransaction", "STNotification"} \X LedgerHashes
\* what stands for the value of a key that Store.Get does not find
NoBytes == << >>

\* NewSimple(backend) over an empty backend store: store 1 is the backend,
\* store 2 the MemCachedStore of the DAO, which is DAO 1
NewSimpleOver(p2pSigExtensions) ==
    /\ ledger = [P2PSigExtensions |-> p2pSigExtensions, Store |-> [key \in LedgerKeys |-> NoBytes]]
    /\ stores = <<Store(0), Store(1)>>
    /\ maps = << >>
    /\ daos = <<SimpleDAO(2, 0)>>
    /\ daoRet = NoDaoCall
    /\ daoCalls = 0
    /\ scope = NoScope
    /\ persisted = 0
    /\ migration = NoMigration

NewSimple == NewSimpleOver(FALSE)


\* removal of the element at 0-based index n of a slice
DropAt(s, n) == SubSeq(s, 1, n) \o SubSeq(s, n + 2, Len(s))

\* InsertAt with the shift to position n left out: the new element stays last
InsertAtEnd(s, n, x) == Append(s, x)

\* insertion of x at 0-based index n of a slice
InsertAt(s, n, x) == SubSeq(s, 1, n) \o <<x>> \o SubSeq(s, n + 1, Len(s))

\* MapDelete with the delete left out
MapDeleteNothing(m, k) == m

\* delete(m, k) of a Go map
MapDelete(m, k) == [x \in DOMAIN m \ {k} |-> m[x]]

\* m[k] = v of a Go map
MapPut(m, k, v) == [x \in DOMAIN m \cup {k} |-> IF x = k THEN v ELSE m[x]]

\* m[k] of the fees map: the zero value when k is absent
FeesGet(f, s) == IF s \in DOMAIN f THEN f[s] ELSE [balance |-> 0, feeSum |-> 0]

\* Count / count
Count == Len(verifiedTxes)

\* ContainsKey / containsKey
containsKey(m, hash) == hash \in DOMAIN m

ContainsKey(hash) == containsKey(verifiedMap, hash)

(***************************************************************************)
(* findIndexForInput: sort.Search(len(slice), input.Cmp(slice[n]) <= 0),   *)
(* the binary search of the standard library on 0-based indices [i, j).    *)
(***************************************************************************)
RECURSIVE SearchInput(_, _, _, _)
SearchInput(slice, input, i, j) ==
    IF i < j
    THEN LET h == (i + j) \div 2
         IN  IF ~(InputCmp(input, slice[h + 1]) <= 0)
             THEN SearchInput(slice, input, h + 1, j)
             ELSE SearchInput(slice, input, i, h)
    ELSE i

findIndexForInput(slice, input) == SearchInput(slice, input, 0, Len(slice))

pushInputToSortedSlice(slice, input) ==
    InsertAt(slice, findIndexForInput(slice, input), input)

dropInputFromSortedSlice(slice, input) ==
    LET n == findIndexForInput(slice, input)
    IN  IF n = Len(slice) \/ input # slice[n + 1]
        THEN slice
        ELSE DropAt(slice, n)

\* the loop of Add pushing t.Inputs[k..] one by one
RECURSIVE PushInputs(_, _, _)
PushInputs(slice, ins, k) ==
    IF k > Len(ins) THEN slice
    ELSE PushInputs(pushInputToSortedSlice(slice, ins[k]), ins, k + 1)

\* the loop of Remove dropping it.txn.Inputs[k..] one by one
RECURSIVE DropInputs(_, _, _)
DropInputs(slice, ins, k) ==
    IF k > Len(ins) THEN slice
    ELSE DropInputs(dropInputFromSortedSlice(slice, ins[k]), ins, k + 1)

\* areInputsInPool
areInputsInPool(ins, pool) ==
    \E i \in 1..Len(ins) :
        LET n == findIndexForInput(pool, ins[i])
        IN  n < Len(pool) /\ pool[n + 1] = ins[i]

(***************************************************************************)
(* The sender fee bookkeeping.                                             *)
(***************************************************************************)
\* the fees map after checkBalanceAndUpdate; bal is what the Feer reports
checkBalanceFees(f, h, bal) ==
    IF Tx(h).Sender \in DOMAIN f THEN f
    ELSE MapPut(f, Tx(h).Sender, [balance |-> bal, feeSum |-> 0])

\* the result of checkBalanceAndUpdate
checkBalanceAndUpdate(f, h, bal) ==
    LET senderFee == checkBalanceFees(f, h, bal)[Tx(h).Sender]
        needFee == Fixed8Add(Fixed8Add(senderFee.feeSum, Tx(h).SystemFee), Tx(h).NetworkFee)
    IN  ~(senderFee.balance < needFee)

addSendersFee(f, h) ==
    LET senderFee == FeesGet(f, Tx(h).Sender)
    IN  MapPut(f, Tx(h).Sender,
               [senderFee EXCEPT !.feeSum =
                    Fixed8Add(@, Fixed8Add(Tx(h).SystemFee, Tx(h).NetworkFee))])

\* checkTxConflicts: false when the transaction conflicts with the pool
checkTxConflicts(h, bal) ==
    IF areInputsInPool(Tx(h).Inputs, inputs) THEN FALSE
    ELSE checkBalanceAndUpdate(fees, h, bal)

\* the fees map checkTxConflicts leaves behind
checkTxConflictsFees(h, bal) ==
    IF areInputsInPool(Tx(h).Inputs, inputs) THEN fees
    ELSE checkBalanceFees(fees, h, bal)

(***************************************************************************)
(* NewTCPPeer: a peer that no task has touched yet.                        *)
(***************************************************************************)
\* the tasks that call Disconnect: handleConn, handleQueues, StartProtocol
\* and the function of the ping timer
Callers == {"reader", "dispatcher", "protocol", "timer"}

NoEnqueue == [pc |-> "idle", queue |-> "none", msg |-> 0, doneBefore |-> FALSE]

NoReturn == [op |-> "NewTCPPeer", err |-> "nil"]

\* a nil msg of handleQueues
NoMsg == [id |-> 0, from |-> "none"]

NoIteration == [hp |-> << >>, p2p |-> << >>, done |-> FALSE]

NewTCPPeer ==
    /\ handShake = {}
    /\ done = FALSE
    /\ finale = "fresh"
    /\ sendQ = << >>
    /\ p2pSendQ = << >>
    /\ hpSendQ = << >>
    /\ closes = [done |-> 0, conn |-> 0, first |-> "none"]
    /\ unregister = << >>
    /\ qpc = "for"
    /\ qmsg = NoMsg
    /\ p2pSkipCounter = 0
    /\ iter = NoIteration
    /\ written = << >>
    /\ rpc = "SendVersion"
    /\ dpc = [c \in Callers |-> "idle"]
    /\ enq = NoEnqueue
    /\ ret = NoReturn
    /\ sends = 0
    /\ shakes = 0
    /\ decoded = "none"
    /\ rerr = "nil"
    /\ spc = "idle"
    /\ pingSent = 0
    /\ keepalive = [pings |-> 0, pongs |-> 0]
    /\ pingTimer = "nil"
    /\ lastBlockIndex = 0

(***************************************************************************)
(* NewMemPool                                                              *)
(***************************************************************************)
NoCall == [op |-> "NewMemPool", txn |-> 0, isLowPrio |-> FALSE, err |-> "nil", gone |-> 0]

\* a pool that no call has touched yet
NewMemPool(cap) ==
    /\ capacity = cap
    /\ verifiedMap = << >>
    /\ verifiedTxes = << >>
    /\ inputs = << >>
    /\ fees = << >>
    /\ last = NoCall
    /\ calls = 0

Init ==
    /\ \E cap \in 0..MaxCapacity : NewMemPool(cap)
    /\ args = NoArgs
    /\ NewTCPPeer
    /\ NewEmptyTrie
    /\ NewSimple

(***************************************************************************)
(* Add                                                                     *)
(***************************************************************************)
\* SearchItem that never finds a less prioritized item
SearchItemNone(list, pItem, i, j) == j

\* sort.Search(len(verifiedTxes), pItem.CompareTo(verifiedTxes[n]) > 0)
RECURSIVE SearchItem(_, _, _, _)
SearchItem(list, pItem, i, j) ==
    IF i < j
    THEN LET h == (i + j) \div 2
         IN  IF ~(CompareTo(pItem, list[h + 1]) > 0)
             THEN SearchItem(list, pItem, h + 1, j)
             ELSE SearchItem(list, pItem, i, h)
    ELSE i

AddResult(h, low, err, gone) ==
    [op |-> "Add", txn |-> h, isLowPrio |-> low, err |-> err, gone |-> gone]

\* atCapacity off by one
atCapacityLate(list, cap) == Len(list) = cap + 1

\* len(mp.verifiedTxes) == mp.capacity
atCapacity(list, cap) == Len(list) = cap

\* unluckyOf taking the first item instead of the last
unluckyOfFirst(list) == list[1]

\* unlucky := mp.verifiedTxes[len(mp.verifiedTxes)-1]
unluckyOf(list) == list[Len(list)]

Add(h, low, bal) ==
    LET pItem == Item(h, low)
        n == SearchItem(verifiedTxes, pItem, 0, Len(verifiedTxes))
        ok == checkTxConflicts(h, bal)
        checked == checkTxConflictsFees(h, bal)
    IN
    IF ~ok
    THEN /\ fees' = checked
         /\ last' = AddResult(h, low, "ErrConflict", 0)
         /\ UNCHANGED <<verifiedMap, verifiedTxes, inputs, capacity>>
    ELSE IF containsKey(verifiedMap, h)
    THEN /\ fees' = checked
         /\ last' = AddResult(h, low, "ErrDup", 0)
         /\ UNCHANGED <<verifiedMap, verifiedTxes, inputs, capacity>>
    ELSE IF atCapacity(verifiedTxes, capacity) /\ n = Len(verifiedTxes)
    THEN \* verifiedMap[t.Hash()] = pItem precedes the capacity check
         /\ verifiedMap' = MapPut(verifiedMap, h, pItem)
         /\ fees' = checked
         /\ last' = AddResult(h, low, "ErrOOM", 0)
         /\ UNCHANGED <<verifiedTxes, inputs, capacity>>
    ELSE IF atCapacity(verifiedTxes, capacity)
    THEN LET unlucky == unluckyOf(verifiedTxes)
         IN  /\ verifiedMap' = MapDelete(MapPut(verifiedMap, h, pItem), unlucky.txn)
             /\ verifiedTxes' = InsertAt(SubSeq(verifiedTxes, 1, Len(verifiedTxes) - 1), n, pItem)
             /\ fees' = addSendersFee(checked, h)
             /\ inputs' = PushInputs(inputs, Tx(h).Inputs, 1)
             /\ last' = AddResult(h, low, "nil", unlucky.txn)
             /\ UNCHANGED capacity
    ELSE /\ verifiedMap' = MapPut(verifiedMap, h, pItem)
         /\ verifiedTxes' = InsertAt(verifiedTxes, n, pItem)
         /\ fees' = addSendersFee(checked, h)
         /\ inputs' = PushInputs(inputs, Tx(h).Inputs, 1)
         /\ last' = AddResult(h, low, "nil", 0)
         /\ UNCHANGED capacity

(***************************************************************************)
(* Remove                                                                  *)
(***************************************************************************)
\* the loop "for num = range verifiedTxes": the 0-based index of the first
\* item with the hash, the last index when there is none, 0 on an empty slice
RECURSIVE RemoveIndex(_, _, _)
RemoveIndex(list, hash, num) ==
    IF Len(list) = 0 THEN 0
    ELSE IF list[num + 1].txn = hash \/ num = Len(list) - 1 THEN num
    ELSE RemoveIndex(list, hash, num + 1)

RemoveResult(hash, gone) ==
    [op |-> "Remove", txn |-> hash, isLowPrio |-> FALSE, err |-> "nil", gone |-> gone]

\* Remove that does not look the hash up in verifiedMap first
RemoveUnchecked(hash) ==
    /\ verifiedMap' = MapDelete(verifiedMap, hash)
    /\ verifiedTxes' = SubSeq(verifiedTxes, 1, Len(verifiedTxes) - 1)
    /\ last' = RemoveResult(hash, 0)
    /\ UNCHANGED <<inputs, fees, capacity>>

Remove(hash) ==
    IF hash \in DOMAIN verifiedMap
    THEN LET it == verifiedMap[hash]
             num == RemoveIndex(verifiedTxes, hash, 0)
             senderFee == FeesGet(fees, Tx(it.txn).Sender)
         IN  /\ verifiedMap' = MapDelete(verifiedMap, hash)
             /\ verifiedTxes' = IF num < Len(verifiedTxes) - 1 THEN DropAt(verifiedTxes, num)
                                ELSE IF num = Len(verifiedTxes) - 1 THEN SubSeq(verifiedTxes, 1, num)
                                ELSE verifiedTxes
             /\ fees' = MapPut(fees, Tx(it.txn).Sender,
                               [senderFee EXCEPT !.feeSum =
                                    Fixed8Sub(@, Fixed8Add(Tx(it.txn).SystemFee, Tx(it.txn).NetworkFee))])
             /\ inputs' = DropInputs(inputs, Tx(it.txn).Inputs, 1)
             /\ last' = RemoveResult(hash, IF Len(verifiedTxes) = 0 THEN 0
                                             ELSE verifiedTxes[num + 1].txn)
             /\ UNCHANGED capacity
    ELSE /\ last' = RemoveResult(hash, 0)
         /\ UNCHANGED <<verifiedMap, verifiedTxes, inputs, fees, capacity>>

(***************************************************************************)
(* RemoveStale                                                             *)
(***************************************************************************)
\* tryAddSendersFee: the fees map it leaves behind
tryAddSendersFeeFees(f, h, bal) ==
    IF checkBalanceAndUpdate(f, h, bal)
    THEN addSendersFee(checkBalanceFees(f, h, bal), h)
    ELSE checkBalanceFees(f, h, bal)

\* sort.Slice(newInputs, Cmp < 0): insertion of x into a sorted sequence
RECURSIVE SortedInsert(_, _)
SortedInsert(s, x) ==
    IF s = << >> THEN <<x>>
    ELSE IF InputCmp(x, Head(s)) < 0 THEN <<x>> \o s
    ELSE <<Head(s)>> \o SortedInsert(Tail(s), x)

RECURSIVE SortInputs(_)
SortInputs(s) == IF s = << >> THEN << >> ELSE SortedInsert(SortInputs(Tail(s)), Head(s))

\* StaleLoop that leaves the loop at the first item that fails the balance check
RECURSIVE StaleLoopBreak(_, _, _, _, _)
StaleLoopBreak(list, k, isOK, balance, st) ==
    IF k > Len(list) THEN st
    ELSE LET itm == list[k]
             bal == balance[Tx(itm.txn).Sender]
         IN  IF itm.txn \notin isOK
             THEN StaleLoopBreak(list, k + 1, isOK, balance,
                                 [st EXCEPT !.map = MapDelete(@, itm.txn)])
             ELSE IF checkBalanceAndUpdate(st.fees, itm.txn, bal)
             THEN StaleLoopBreak(list, k + 1, isOK, balance,
                                 [st EXCEPT !.txes = Append(@, itm),
                                            !.inputs = @ \o Tx(itm.txn).Inputs,
                                            !.fees = tryAddSendersFeeFees(@, itm.txn, bal)])
             ELSE [st EXCEPT !.fees = tryAddSendersFeeFees(@, itm.txn, bal),
                             !.map = MapDelete(@, itm.txn)]

\* the loop of RemoveStale from the k-th item on; st holds newVerifiedTxes,
\* newInputs, the fees map and verifiedMap; isOK is the set of hashes the
\* predicate accepts and balance the Feer's answer for each sender
RECURSIVE StaleLoop(_, _, _, _, _)
StaleLoop(list, k, isOK, balance, st) ==
    IF k > Len(list) THEN st
    ELSE LET itm == list[k]
             bal == balance[Tx(itm.txn).Sender]
         IN  IF itm.txn \notin isOK
             THEN StaleLoop(list, k + 1, isOK, balance,
                            [st EXCEPT !.map = MapDelete(@, itm.txn)])
             ELSE IF checkBalanceAndUpdate(st.fees, itm.txn, bal)
             THEN StaleLoop(list, k + 1, isOK, balance,
                            [st EXCEPT !.txes = Append(@, itm),
                                       !.inputs = @ \o Tx(itm.txn).Inputs,
                                       !.fees = tryAddSendersFeeFees(@, itm.txn, bal)])
             ELSE StaleLoop(list, k + 1, isOK, balance,
                            [st EXCEPT !.fees = tryAddSendersFeeFees(@, itm.txn, bal),
                                       !.map = MapDelete(@, itm.txn)])

RemoveStaleResult ==
    [op |-> "RemoveStale", txn |-> 0, isLowPrio |-> FALSE, err |-> "nil", gone |-> 0]

RemoveStale(isOK, balance) ==
    LET st == StaleLoop(verifiedTxes, 1, isOK, balance,
                        [txes |-> << >>, inputs |-> << >>, fees |-> << >>, map |-> verifiedMap])
    IN  /\ verifiedTxes' = st.txes
        /\ inputs' = SortInputs(st.inputs)
        /\ fees' = st.fees
        /\ verifiedMap' = st.map
        /\ last' = RemoveStaleResult
        /\ UNCHANGED capacity

\* the hashes of the items of a list
ListHashes(list) == {list[i].txn : i \in 1..Len(list)}

\* the senders of the items of a list
ListSenders(list) == {Tx(list[i].txn).Sender : i \in 1..Len(list)}

\* one more call, as long as the bound allows
Call == calls < MaxCalls /\ calls' = calls + 1 /\ UNCHANGED <<args, peerVars, daoVars, trieVars>>

\* the answers the Feer of an Add may give for transaction h: whether its
\* network fee is of low priority, and the balance of its sender (asked for
\* only when the sender has no entry in fees)
LowPrioAnswers(h) == {IsLowPriority(th, Tx(h).NetworkFee) : th \in Thresholds}

BalanceAnswers(h) == IF Tx(h).Sender \in DOMAIN fees THEN {0} ELSE Balances

Next ==
    \/ \E h \in Hashes :
          \E low \in LowPrioAnswers(h), bal \in BalanceAnswers(h) : Call /\ Add(h, low, bal)
    \/ \E h \in Hashes : Call /\ Remove(h)
    \/ \E isOK \in SUBSET ListHashes(verifiedTxes) :
          \E balance \in [ListSenders(verifiedTxes) -> Balances] :
              Call /\ RemoveStale(isOK, balance)

Spec == Init /\ [][Next]_vars

(***************************************************************************)
(* Verify, and the pool with Verify among its calls.  Every call leaves    *)
(* its arguments in args.                                                  *)
(***************************************************************************)
VerifyResult(h, ok) ==
    [op |-> "Verify", txn |-> h, isLowPrio |-> FALSE,
     err |-> IF ok THEN "true" ELSE "false", gone |-> 0]

\* Verify: checkTxConflicts under the read lock
Verify(h, bal) ==
    /\ fees' = checkTxConflictsFees(h, bal)
    /\ last' = VerifyResult(h, checkTxConflicts(h, bal))
    /\ UNCHANGED <<verifiedMap, verifiedTxes, inputs, capacity>>

CallOps(a) ==
    /\ calls < MaxOpsCalls
    /\ calls' = calls + 1
    /\ args' = a
    /\ UNCHANGED <<peerVars, daoVars, trieVars>>

NextOps ==
    \/ \E h \in OpsHashes :
          \E low \in LowPrioAnswers(h), bal \in BalanceAnswers(h) :
              /\ CallOps([f |-> "Add", txn |-> h, isLowPrio |-> low, bal |-> bal])
              /\ Add(h, low, bal)
    \/ \E h \in OpsHashes : CallOps([f |-> "Remove", txn |-> h]) /\ Remove(h)
    \/ \E isOK \in SUBSET ListHashes(verifiedTxes) :
          \E balance \in [ListSenders(verifiedTxes) -> Balances] :
              /\ CallOps([f |-> "RemoveStale", isOK |-> isOK, balance |-> balance])
              /\ RemoveStale(isOK, balance)
    \/ \E h \in OpsHashes :
          \E bal \in BalanceAnswers(h) :
              CallOps([f |-> "Verify", txn |-> h, bal |-> bal]) /\ Verify(h, bal)

SpecOps == Init /\ [][NextOps]_vars

(***************************************************************************)
(* item.CompareTo on its own: three items are drawn and compared.          *)
(***************************************************************************)
CompareItems == {Item(h, low) : h \in CompareHashes, low \in BOOLEAN}

InitCompare ==
    /\ NewMemPool(0)
    /\ NewTCPPeer
    /\ NewEmptyTrie
    /\ NewSimple
    /\ \E a \in CompareItems, b \in CompareItems, c \in CompareItems :
           args = [f |-> "CompareTo", a |-> a, b |-> b, c |-> c, applied |-> FALSE]

ApplyCompareTo ==
    /\ args.f = "CompareTo"
    /\ ~args.applied
    /\ args' = [f |-> "CompareTo", a |-> args.a, b |-> args.b, c |-> args.c, applied |-> TRUE,
                ab |-> CompareTo(args.a, args.b),
                ba |-> CompareTo(args.b, args.a),
                bc |-> CompareTo(args.b, args.c),
                ac |-> CompareTo(args.a, args.c)]
    /\ UNCHANGED <<poolVars, peerVars, daoVars, trieVars>>

NextCompare == ApplyCompareTo

SpecCompare == InitCompare /\ [][NextCompare]_vars

(***************************************************************************)
(* The handshake of a TCPPeer.  handShake is the set of the stages whose   *)
(* bit is set; every method holds p.lock from its first statement to its   *)
(* return, so each is one step.                                            *)
(***************************************************************************)
versionSent == 1
versionReceived == 2
verAckSent == 4
verAckReceived == 8

\* what conn.Write may return: a closed connection takes no writes
WriteResults == IF closes.conn = 0 THEN {"nil", "errWrite"} ELSE {"errWrite"}

Return(op, err) == [op |-> op, err |-> err]

\* a fresh pool aside, a peer that no task has touched yet
InitPeer ==
    /\ NewMemPool(0)
    /\ args = NoArgs
    /\ NewTCPPeer
    /\ NewEmptyTrie
    /\ NewSimple

\* what a handshake method leaves alone
ShakeFrame ==
    UNCHANGED <<poolVars, args, daoVars, trieVars, done, finale, sendQ, p2pSendQ, hpSendQ, closes, unregister,
                qpc, qmsg, p2pSkipCounter, iter, written, dpc, enq, sends, spc, pingSent, keepalive,
                pingTimer, lastBlockIndex>>

\* one more call of a handshake method, as long as the bound allows
ShakeCall ==
    /\ shakes < MaxShakes
    /\ shakes' = shakes + 1
    /\ UNCHANGED <<rpc, decoded, rerr>>
    /\ ShakeFrame

\* Handshaked that looks only at what this side has sent
HandshakedSent == {versionSent, verAckSent} \subseteq handShake

Handshaked == handShake = {verAckReceived, verAckSent, versionReceived, versionSent}

\* the call p.Handshaked() of another package
CallHandshaked ==
    /\ ret' = Return("Handshaked", IF Handshaked THEN "true" ELSE "false")
    /\ UNCHANGED handShake

\* err is the result of writeMsg
SendVersion(err) ==
    IF versionSent \in handShake
    THEN ret' = Return("SendVersion", "already sent Version") /\ UNCHANGED handShake
    ELSE /\ handShake' = IF err = "nil" THEN handShake \cup {versionSent} ELSE handShake
         /\ ret' = Return("SendVersion", err)

HandleVersion ==
    IF versionReceived \in handShake
    THEN ret' = Return("HandleVersion", "already received Version") /\ UNCHANGED handShake
    ELSE /\ handShake' = handShake \cup {versionReceived}
         /\ ret' = Return("HandleVersion", "nil")

\* SendVersionAck that does not look at the handshake state first
SendVersionAckUnchecked(err) ==
    /\ handShake' = IF err = "nil" THEN handShake \cup {verAckSent} ELSE handShake
    /\ ret' = Return("SendVersionAck", err)

SendVersionAck(err) ==
    IF versionReceived \notin handShake
    THEN ret' = Return("SendVersionAck", "no version received yet") /\ UNCHANGED handShake
    ELSE IF versionSent \notin handShake
    THEN ret' = Return("SendVersionAck", "didn't send Version yet") /\ UNCHANGED handShake
    ELSE IF verAckSent \in handShake
    THEN ret' = Return("SendVersionAck", "already sent VersionAck") /\ UNCHANGED handShake
    ELSE /\ handShake' = IF err = "nil" THEN handShake \cup {verAckSent} ELSE handShake
         /\ ret' = Return("SendVersionAck", err)

HandleVersionAck ==
    IF versionSent \notin handShake
    THEN ret' = Return("HandleVersionAck", "no version sent yet") /\ UNCHANGED handShake
    ELSE IF versionReceived \notin handShake
    THEN ret' = Return("HandleVersionAck", "no version received yet") /\ UNCHANGED handShake
    ELSE IF verAckReceived \in handShake
    THEN ret' = Return("HandleVersionAck", "already received VersionAck") /\ UNCHANGED handShake
    ELSE /\ handShake' = handShake \cup {verAckReceived}
         /\ ret' = Return("HandleVersionAck", "nil")

NextHandshake ==
    \/ \E err \in WriteResults : ShakeCall /\ SendVersion(err)
    \/ ShakeCall /\ HandleVersion
    \/ \E err \in WriteResults : ShakeCall /\ SendVersionAck(err)
    \/ ShakeCall /\ HandleVersionAck
    \/ ShakeCall /\ CallHandshaked

SpecHandshake == InitPeer /\ [][NextHandshake]_vars

(***************************************************************************)
(* Disconnect.  finale is a sync.Once: the first caller runs the function, *)
(* a caller that comes while it runs waits for its end, a later one        *)
(* returns at once.  The function is three steps: close(p.done),           *)
(* p.conn.Close() and the send to p.server.unregister.                     *)
(***************************************************************************)
\* the error each caller hands to Disconnect
errOf(c) ==
    CASE c = "reader" -> rerr
      [] c = "dispatcher" -> "errWrite"
      [] c = "protocol" -> "errRequest"
      [] c = "timer" -> "errPingPong"

\* when a caller gets to call Disconnect: handleConn, handleQueues and
\* StartProtocol when they have left their loops, the function of the ping
\* timer when the timer has fired
MayDisconnect(c) ==
    /\ dpc[c] = "idle"
    /\ c = "reader" => rpc = "Disconnect"
    /\ c = "dispatcher" => qpc = "Disconnect"
    /\ c = "protocol" => spc = "Disconnect"
    /\ c = "timer" => pingTimer = "fired"

\* what Disconnect leaves alone
DisconnectFrame ==
    UNCHANGED <<poolVars, args, daoVars, trieVars, handShake, sendQ, p2pSendQ, hpSendQ, qmsg, p2pSkipCounter,
                iter, written, enq, ret, sends, shakes, decoded, rerr, pingSent, keepalive, pingTimer,
                lastBlockIndex>>

\* the caller leaves Disconnect; handleConn, handleQueues and StartProtocol
\* return with it
DisconnectReturns(c) ==
    /\ dpc' = [dpc EXCEPT ![c] = "returned"]
    /\ qpc' = IF c = "dispatcher" THEN "returned" ELSE qpc
    /\ rpc' = IF c = "reader" THEN "returned" ELSE rpc
    /\ spc' = IF c = "protocol" THEN "returned" ELSE spc

\* p.finale.Do without the Once: every caller runs the function
DisconnectNoOnce(c) ==
    /\ MayDisconnect(c)
    /\ closes' = [closes EXCEPT !.first = IF @ = "none" THEN c ELSE @]
    /\ finale' = "running"
    /\ dpc' = [dpc EXCEPT ![c] = "close(p.done)"]
    /\ UNCHANGED <<done, unregister, qpc, rpc, spc>>
    /\ DisconnectFrame

\* p.finale.Do(func)
Disconnect(c) ==
    /\ MayDisconnect(c)
    /\ finale # "running"
    /\ closes' = [closes EXCEPT !.first = IF @ = "none" THEN c ELSE @]
    /\ IF finale = "fresh"
       THEN /\ finale' = "running"
            /\ dpc' = [dpc EXCEPT ![c] = "close(p.done)"]
            /\ UNCHANGED <<qpc, rpc, spc>>
       ELSE /\ DisconnectReturns(c)
            /\ UNCHANGED finale
    /\ UNCHANGED <<done, unregister>>
    /\ DisconnectFrame

DisconnectCloseDone(c) ==
    /\ dpc[c] = "close(p.done)"
    /\ done' = TRUE
    /\ closes' = [closes EXCEPT !.done = @ + 1]
    /\ dpc' = [dpc EXCEPT ![c] = "p.conn.Close()"]
    /\ UNCHANGED <<finale, unregister, qpc, rpc, spc>>
    /\ DisconnectFrame

DisconnectCloseConn(c) ==
    /\ dpc[c] = "p.conn.Close()"
    /\ closes' = [closes EXCEPT !.conn = @ + 1]
    /\ dpc' = [dpc EXCEPT ![c] = "unregister"]
    /\ UNCHANGED <<done, finale, unregister, qpc, rpc, spc>>
    /\ DisconnectFrame

DisconnectUnregister(c) ==
    /\ dpc[c] = "unregister"
    /\ unregister' = Append(unregister, errOf(c))
    /\ finale' = "done"
    /\ DisconnectReturns(c)
    /\ UNCHANGED <<done, closes>>
    /\ DisconnectFrame

(***************************************************************************)
(* putPacketIntoQueue, which every Enqueue method ends in.  One call is in *)
(* progress at a time; its message is numbered by the count of the calls.  *)
(***************************************************************************)
requestQueueSize == 32
p2pMsgQueueSize == 16
hpRequestQueueSize == 4

Queues == {"sendQ", "p2pSendQ", "hpSendQ"}

\* the buffer of a queue and its size
Buffer(q) ==
    CASE q = "sendQ" -> sendQ
      [] q = "p2pSendQ" -> p2pSendQ
      [] q = "hpSendQ" -> hpSendQ

QueueSize(q) ==
    CASE q = "sendQ" -> requestQueueSize
      [] q = "p2pSendQ" -> p2pMsgQueueSize
      [] q = "hpSendQ" -> hpRequestQueueSize

\* the buffer of queue q becomes b, the other queues stay
SetBuffer(q, b) ==
    /\ sendQ' = IF q = "sendQ" THEN b ELSE sendQ
    /\ p2pSendQ' = IF q = "p2pSendQ" THEN b ELSE p2pSendQ
    /\ hpSendQ' = IF q = "hpSendQ" THEN b ELSE hpSendQ

EnqueueReturn(e, err) ==
    [op |-> "putPacketIntoQueue", err |-> err, queue |-> e.queue, msg |-> e.msg,
     doneBefore |-> e.doneBefore]

EnqueueFrame ==
    UNCHANGED <<poolVars, args, daoVars, trieVars, handShake, done, finale, closes, unregister, qpc, qmsg,
                p2pSkipCounter, iter, written, rpc, dpc, shakes, decoded, rerr, spc,
                lastBlockIndex>>

\* putPacketIntoQueue without the test of Handshaked()
putPacketIntoQueueUnchecked(queue) ==
    LET e == [pc |-> "select", queue |-> queue, msg |-> sends + 1, doneBefore |-> done]
    IN  /\ enq.pc = "idle"
        /\ sends < MaxSends
        /\ sends' = sends + 1
        /\ enq' = e
        /\ UNCHANGED <<ret, sendQ, p2pSendQ, hpSendQ, pingSent, keepalive, pingTimer>>
        /\ EnqueueFrame

\* the call and its test of Handshaked()
putPacketIntoQueue(queue) ==
    LET e == [pc |-> "select", queue |-> queue, msg |-> sends + 1, doneBefore |-> done]
    IN  /\ enq.pc = "idle"
        /\ sends < MaxSends
        /\ sends' = sends + 1
        /\ IF ~Handshaked
           THEN ret' = EnqueueReturn(e, "errStateMismatch") /\ UNCHANGED enq
           ELSE enq' = e /\ UNCHANGED ret
        /\ UNCHANGED <<sendQ, p2pSendQ, hpSendQ, pingSent, keepalive, pingTimer>>
        /\ EnqueueFrame

\* its select: a case that is ready is taken, any one if both are
putPacketSelect ==
    /\ enq.pc = "select"
    /\ \/ /\ Len(Buffer(enq.queue)) < QueueSize(enq.queue)
          /\ SetBuffer(enq.queue, Append(Buffer(enq.queue), enq.msg))
          /\ ret' = EnqueueReturn(enq, "nil")
       \/ /\ done
          /\ ret' = EnqueueReturn(enq, "errGone")
          /\ UNCHANGED <<sendQ, p2pSendQ, hpSendQ>>
    /\ enq' = NoEnqueue
    /\ UNCHANGED <<sends, pingSent, keepalive, pingTimer>>
    /\ EnqueueFrame

(***************************************************************************)
(* handleQueues.  p2pSkipCounter is kept modulo p2pSkipDivisor, which      *)
(* divides 2^32, the wrap of the uint32.                                   *)
(***************************************************************************)
p2pSkipDivisor == 4

QueuesFrame ==
    UNCHANGED <<poolVars, args, daoVars, trieVars, handShake, done, finale, closes, unregister, rpc, dpc, enq, ret,
                sends, shakes, decoded, rerr, spc, pingSent, keepalive, pingTimer, lastBlockIndex>>

\* case <-p.done: return
SeesDone ==
    /\ done
    /\ qpc' = "returned"
    /\ UNCHANGED <<qmsg, sendQ, p2pSendQ, hpSendQ>>

\* case msg = <-q
Receives(q) ==
    /\ Buffer(q) # << >>
    /\ qmsg' = [id |-> Head(Buffer(q)), from |-> q]
    /\ SetBuffer(q, Tail(Buffer(q)))
    /\ qpc' = "Write"

\* default: taken when no case of the select over the queues qs is ready
Default(qs, next) ==
    /\ ~done
    /\ \A q \in qs : Buffer(q) = << >>
    /\ qpc' = next
    /\ UNCHANGED <<qmsg, sendQ, p2pSendQ, hpSendQ>>

\* the top of the loop: var msg []byte
handleQueuesFor ==
    /\ qpc = "for"
    /\ iter' = [hp |-> hpSendQ, p2p |-> p2pSendQ, done |-> done]
    /\ qmsg' = NoMsg
    /\ qpc' = "select hp"
    /\ UNCHANGED <<sendQ, p2pSendQ, hpSendQ, p2pSkipCounter, written>>
    /\ QueuesFrame

\* the first select without its case for hpSendQ
handleQueuesNoHP ==
    /\ qpc = "select hp"
    /\ \/ SeesDone
       \/ /\ ~done
          /\ qpc' = IF p2pSkipCounter % p2pSkipDivisor # 0 THEN "select p2p" ELSE "select any"
          /\ UNCHANGED <<qmsg, sendQ, p2pSendQ, hpSendQ>>
    /\ UNCHANGED <<iter, p2pSkipCounter, written>>
    /\ QueuesFrame

\* the first select, and the test that leads to the second or the third
handleQueuesHP ==
    /\ qpc = "select hp"
    /\ \/ SeesDone
       \/ Receives("hpSendQ")
       \/ Default({"hpSendQ"},
                  IF p2pSkipCounter % p2pSkipDivisor # 0 THEN "select p2p" ELSE "select any")
    /\ UNCHANGED <<iter, p2pSkipCounter, written>>
    /\ QueuesFrame

\* the second select
handleQueuesP2P ==
    /\ qpc = "select p2p"
    /\ \/ SeesDone
       \/ Receives("hpSendQ")
       \/ Receives("p2pSendQ")
       \/ Default({"hpSendQ", "p2pSendQ"}, "select any")
    /\ UNCHANGED <<iter, p2pSkipCounter, written>>
    /\ QueuesFrame

\* the third select without its case for done
handleQueuesAnyNoDone ==
    /\ qpc = "select any"
    /\ \/ Receives("hpSendQ")
       \/ Receives("p2pSendQ")
       \/ Receives("sendQ")
    /\ UNCHANGED <<iter, p2pSkipCounter, written>>
    /\ QueuesFrame

\* the third select, which blocks until a case is ready
handleQueuesAny ==
    /\ qpc = "select any"
    /\ \/ SeesDone
       \/ Receives("hpSendQ")
       \/ Receives("p2pSendQ")
       \/ Receives("sendQ")
    /\ UNCHANGED <<iter, p2pSkipCounter, written>>
    /\ QueuesFrame

\* p.conn.Write(msg) and what follows it
handleQueuesWrite(err) ==
    /\ qpc = "Write"
    /\ IF err = "nil"
       THEN /\ written' = Append(written, qmsg)
            /\ p2pSkipCounter' = (p2pSkipCounter + 1) % p2pSkipDivisor
            /\ qpc' = "for"
       ELSE /\ qpc' = "Disconnect"
            /\ UNCHANGED <<written, p2pSkipCounter>>
    /\ UNCHANGED <<iter, qmsg, sendQ, p2pSendQ, hpSendQ>>
    /\ QueuesFrame

(***************************************************************************)
(* The keepalive.  SendPing holds p.lock while it counts the ping and arms *)
(* the timer, and ends in putPacketIntoQueue; HandlePong holds p.lock from *)
(* its first statement to its return.  A timer that has fired is never     *)
(* replaced: pingTimer goes back to nil only when Stop succeeds.           *)
(***************************************************************************)
\* the values of pong.LastBlockIndex
BlockIndexes == {1, 2}

PongReturn(err, index) == [op |-> "HandlePong", err |-> err, lastBlockIndex |-> index]

\* SendPing that counts no ping
SendPingNoCount ==
    LET e == [pc |-> "select", queue |-> "sendQ", msg |-> sends + 1, doneBefore |-> done]
    IN  /\ enq.pc = "idle"
        /\ sends < MaxSends
        /\ sends' = sends + 1
        /\ IF ~Handshaked
           THEN /\ ret' = Return("SendPing", "errStateMismatch")
                /\ UNCHANGED <<enq, pingSent, keepalive, pingTimer>>
           ELSE /\ pingTimer' = IF pingTimer = "nil" THEN "armed" ELSE pingTimer
                /\ keepalive' = [keepalive EXCEPT !.pings = @ + 1]
                /\ enq' = e
                /\ UNCHANGED <<ret, pingSent>>
        /\ UNCHANGED <<sendQ, p2pSendQ, hpSendQ>>
        /\ EnqueueFrame

\* the ping is the next enqueue call
SendPing ==
    LET e == [pc |-> "select", queue |-> "sendQ", msg |-> sends + 1, doneBefore |-> done]
    IN  /\ enq.pc = "idle"
        /\ sends < MaxSends
        /\ sends' = sends + 1
        /\ IF ~Handshaked
           THEN /\ ret' = Return("SendPing", "errStateMismatch")
                /\ UNCHANGED <<enq, pingSent, keepalive, pingTimer>>
           ELSE /\ pingSent' = pingSent + 1
                /\ keepalive' = [keepalive EXCEPT !.pings = @ + 1]
                /\ pingTimer' = IF pingTimer = "nil" THEN "armed" ELSE pingTimer
                /\ enq' = e
                /\ UNCHANGED ret
        /\ UNCHANGED <<sendQ, p2pSendQ, hpSendQ>>
        /\ EnqueueFrame

\* PingTimeout has passed since time.AfterFunc
PingTimerFires ==
    /\ pingTimer = "armed"
    /\ pingTimer' = "fired"
    /\ UNCHANGED <<sendQ, p2pSendQ, hpSendQ, enq, ret, sends, pingSent, keepalive>>
    /\ EnqueueFrame

\* HandlePong that does not look at the result of Stop
HandlePongStopUnchecked(index) ==
    /\ pingTimer' = "nil"
    /\ pingSent' = pingSent - 1
    /\ keepalive' = [keepalive EXCEPT !.pongs = @ + 1]
    /\ IF pingSent - 1 < 0
       THEN ret' = PongReturn("errUnexpectedPong", index) /\ UNCHANGED lastBlockIndex
       ELSE ret' = PongReturn("nil", index) /\ lastBlockIndex' = index

\* HandlePong that takes a Pong after the timeout for an unexpected Pong
HandlePongLate(index) ==
    IF pingTimer = "fired"
    THEN /\ ret' = PongReturn("errUnexpectedPong", index)
         /\ UNCHANGED <<pingSent, keepalive, pingTimer, lastBlockIndex>>
    ELSE /\ pingTimer' = "nil"
         /\ pingSent' = pingSent - 1
         /\ keepalive' = [keepalive EXCEPT !.pongs = @ + 1]
         /\ IF pingSent - 1 < 0
            THEN ret' = PongReturn("errUnexpectedPong", index) /\ UNCHANGED lastBlockIndex
            ELSE ret' = PongReturn("nil", index) /\ lastBlockIndex' = index

\* Stop fails on a timer that has fired
HandlePong(index) ==
    IF pingTimer = "fired"
    THEN /\ ret' = PongReturn("errPingPong", index)
         /\ UNCHANGED <<pingSent, keepalive, pingTimer, lastBlockIndex>>
    ELSE /\ pingTimer' = "nil"
         /\ pingSent' = pingSent - 1
         /\ keepalive' = [keepalive EXCEPT !.pongs = @ + 1]
         /\ IF pingSent - 1 < 0
            THEN ret' = PongReturn("errUnexpectedPong", index) /\ UNCHANGED lastBlockIndex
            ELSE ret' = PongReturn("nil", index) /\ lastBlockIndex' = index

(***************************************************************************)
(* handleConn.  It sends the Version, then decodes message after message   *)
(* and hands each to p.server.handleMessage, which calls the method of the *)
(* peer that handles the message; the first error takes it to Disconnect.  *)
(* msg.Decode only reads the connection, so it is one step with the        *)
(* handling of the message.                                                *)
(***************************************************************************)
\* the results of msg.Decode after which the message is handled
Decoded == {"nil", "ErrTooManyHeaders"}

\* fmt.Errorf("handling %s message: %v", msg.CommandType(), err)
Wrapped(err) == "handling message: " \o err

\* handleConn that leaves its loop on every error of msg.Decode
AfterCallStrict ==
    rpc' = IF ret'.err = "nil" /\ decoded' # "ErrTooManyHeaders" THEN "Decode" ELSE "Disconnect"

\* where handleConn goes after a call that has returned the error of ret'
AfterCall == rpc' = IF ret'.err = "nil" THEN "Decode" ELSE "Disconnect"

\* err after handleMessage has returned the error of ret'
AfterHandler ==
    rerr' = IF ret'.err # "nil" /\ Handshaked' THEN Wrapped(ret'.err) ELSE ret'.err

handleConnSendVersion(err) ==
    /\ rpc = "SendVersion"
    /\ UNCHANGED decoded
    /\ SendVersion(err)
    /\ AfterCall
    /\ rerr' = ret'.err
    /\ shakes' = shakes + 1
    /\ ShakeFrame

\* a message that handleMessage answers with the handshake method m
handleConnMessage(dec, m, err) ==
    /\ rpc = "Decode"
    /\ decoded' = dec
    /\ CASE m = "HandleVersion" -> HandleVersion
         [] m = "SendVersionAck" -> SendVersionAck(err)
         [] m = "HandleVersionAck" -> HandleVersionAck
    /\ AfterCall
    /\ AfterHandler
    /\ shakes' = shakes + 1
    /\ ShakeFrame

\* a Pong, which handleMessage answers with HandlePong
handleConnPong(dec, index) ==
    /\ rpc = "Decode"
    /\ decoded' = dec
    /\ UNCHANGED handShake
    /\ HandlePong(index)
    /\ AfterCall
    /\ AfterHandler
    /\ shakes' = shakes + 1
    /\ UNCHANGED <<poolVars, args, daoVars, trieVars, done, finale, sendQ, p2pSendQ, hpSendQ, closes,
                   unregister, qpc, qmsg, p2pSkipCounter, iter, written, dpc, enq, sends,
                   spc>>

\* msg.Decode fails with an error of the connection
handleConnError ==
    /\ rpc = "Decode"
    /\ rpc' = "Disconnect"
    /\ decoded' = "errRead"
    /\ rerr' = "errRead"
    /\ UNCHANGED <<handShake, ret, shakes>>
    /\ ShakeFrame

\* handleMessage fails in a handler that is no method of the peer
handleConnHandlerError(dec) ==
    /\ rpc = "Decode"
    /\ rpc' = "Disconnect"
    /\ decoded' = dec
    /\ rerr' = IF Handshaked THEN Wrapped("errHandler") ELSE "errHandler"
    /\ UNCHANGED <<handShake, ret, shakes>>
    /\ ShakeFrame

(***************************************************************************)
(* StartProtocol, which the server starts when the handshake is complete.  *)
(* Its requests are calls of the server: each returns nil or an error.     *)
(***************************************************************************)
ProtocolFrame ==
    UNCHANGED <<poolVars, args, daoVars, trieVars, handShake, done, finale, sendQ, p2pSendQ, hpSendQ, closes,
                unregister, qpc, qmsg, p2pSkipCounter, iter, written, rpc, dpc, enq, ret,
                sends, shakes, decoded, rerr, pingSent, keepalive, pingTimer, lastBlockIndex>>

\* up to time.NewTimer: requestHeaders may fail
StartProtocol ==
    /\ spc = "idle"
    /\ Handshaked
    /\ spc' \in {"select", "Disconnect"}
    /\ ProtocolFrame

\* the select of the loop: done is closed, or the timer has ticked and the
\* requests succeed or fail
StartProtocolSelect ==
    /\ spc = "select"
    /\ \/ done /\ spc' = "returned"
       \/ spc' \in {"select", "Disconnect"}
    /\ ProtocolFrame

(***************************************************************************)
(* The tasks of a peer, step by step.                                      *)
(***************************************************************************)
\* a step of handleConn during the handshake
handleConnStep ==
    \/ \E err \in WriteResults : handleConnSendVersion(err)
    \/ \E m \in {"HandleVersion", "SendVersionAck", "HandleVersionAck"} :
          \E err \in WriteResults : handleConnMessage("nil", m, err)
    \/ handleConnError

\* a step of the call of Disconnect by c
DisconnectBy(c) ==
    \/ Disconnect(c)
    \/ DisconnectCloseDone(c)
    \/ DisconnectCloseConn(c)
    \/ DisconnectUnregister(c)

(***************************************************************************)
(* The queues of a peer: handleConn, the enqueuing callers and             *)
(* handleQueues.  No ping is sent and StartProtocol is not started.        *)
(***************************************************************************)
NextPeer ==
    \/ handleConnStep
    \/ \E queue \in Queues : putPacketIntoQueue(queue)
    \/ putPacketSelect
    \/ handleQueuesFor
    \/ handleQueuesHP
    \/ handleQueuesP2P
    \/ handleQueuesAny
    \/ \E err \in WriteResults : handleQueuesWrite(err)
    \/ \E c \in {"reader", "dispatcher"} : DisconnectBy(c)

SpecPeer == InitPeer /\ [][NextPeer]_vars

(***************************************************************************)
(* The end of a peer: the four tasks that call Disconnect.  The pings are  *)
(* the messages that are enqueued.                                         *)
(***************************************************************************)
NextDisconnect ==
    \/ handleConnStep
    \/ SendPing
    \/ PingTimerFires
    \/ putPacketSelect
    \/ handleQueuesFor
    \/ handleQueuesHP
    \/ handleQueuesP2P
    \/ handleQueuesAny
    \/ \E err \in WriteResults : handleQueuesWrite(err)
    \/ StartProtocol
    \/ StartProtocolSelect
    \/ \E c \in Callers : DisconnectBy(c)

SpecDisconnect == InitPeer /\ [][NextDisconnect]_vars

(***************************************************************************)
(* The inbound loop and the keepalive: handleConn with every message it    *)
(* handles, SendPing and the ping timer.  handleQueues is left out: the    *)
(* pings stay in sendQ, which has room for them.                           *)
(***************************************************************************)
NextPing ==
    \/ \E err \in WriteResults : handleConnSendVersion(err)
    \/ \E dec \in Decoded, m \in {"HandleVersion", "SendVersionAck", "HandleVersionAck"} :
          \E err \in WriteResults : handleConnMessage(dec, m, err)
    \/ \E dec \in Decoded, index \in BlockIndexes : handleConnPong(dec, index)
    \/ handleConnError
    \/ \E dec \in Decoded : handleConnHandlerError(dec)
    \/ SendPing
    \/ PingTimerFires
    \/ putPacketSelect
    \/ \E c \in {"reader", "timer"} : DisconnectBy(c)

(***************************************************************************)
(* The callers that enqueue: handleConn, which makes the handshake, the    *)
(* callers of the Enqueue methods and of SendPing, and handleQueues.       *)
(***************************************************************************)
NextEnqueue ==
    \/ handleConnStep
    \/ \E queue \in Queues : putPacketIntoQueue(queue)
    \/ SendPing
    \/ putPacketSelect
    \/ handleQueuesFor
    \/ handleQueuesHP
    \/ handleQueuesP2P
    \/ handleQueuesAny
    \/ \E err \in WriteResults : handleQueuesWrite(err)
    \/ \E c \in {"reader", "dispatcher"} : DisconnectBy(c)

SpecEnqueue == InitPeer /\ [][NextEnqueue]_vars

SpecPing == InitPeer /\ [][NextPing]_vars

\* the Go scheduler runs the goroutine of a caller of Disconnect, that of
\* time.AfterFunc included
SpecPingFair == SpecPing /\ \A c \in {"reader", "timer"} : WF_vars(DisconnectBy(c))

(***************************************************************************)
(* The peer under load.  Callers enqueue packets for as long as they like, *)
(* so the packets are not numbered: each is the packet 1, and a caller     *)
(* puts one into a queue that holds fewer than a given load.  The load of  *)
(* SpecLoad is on p2pSendQ and sendQ.  No ping is sent and StartProtocol   *)
(* is not started.  written is a window here: the latest writes made one   *)
(* after the other in iterations that began with hpSendQ empty and         *)
(* p2pSendQ not empty, at most p2pSkipDivisor of them.                     *)
(***************************************************************************)
MaxLoad == 1

\* the last n elements of a sequence
LastN(seq, n) == IF Len(seq) <= n THEN seq ELSE SubSeq(seq, Len(seq) - n + 1, Len(seq))

\* the iteration began with hpSendQ empty and p2pSendQ not empty, and took no
\* message of hpSendQ
P2PLoaded == iter.hp = << >> /\ iter.p2p # << >> /\ qmsg.from # "hpSendQ"

\* putPacketIntoQueue, called with the packet 1 when the queue holds fewer
\* than load packets
putPacketUnderLoad(queue, load) ==
    LET e == [pc |-> "select", queue |-> queue, msg |-> 1, doneBefore |-> done]
    IN  /\ enq.pc = "idle"
        /\ Len(Buffer(queue)) < load
        /\ IF ~Handshaked
           THEN ret' = EnqueueReturn(e, "errStateMismatch") /\ UNCHANGED enq
           ELSE enq' = e /\ UNCHANGED ret
        /\ UNCHANGED <<sendQ, p2pSendQ, hpSendQ, sends, pingSent, keepalive, pingTimer>>
        /\ EnqueueFrame

\* p.conn.Write(msg) without the count of the written messages
handleQueuesWriteNoCount(err) ==
    /\ qpc = "Write"
    /\ IF err = "nil"
       THEN /\ written' = IF P2PLoaded THEN LastN(Append(written, qmsg), p2pSkipDivisor)
                          ELSE << >>
            /\ qpc' = "for"
            /\ UNCHANGED p2pSkipCounter
       ELSE /\ qpc' = "Disconnect"
            /\ UNCHANGED <<written, p2pSkipCounter>>
    /\ UNCHANGED <<iter, qmsg, sendQ, p2pSendQ, hpSendQ>>
    /\ QueuesFrame

\* p.conn.Write(msg) and what follows it, written being the window
handleQueuesWriteWindow(err) ==
    /\ qpc = "Write"
    /\ IF err = "nil"
       THEN /\ written' = IF P2PLoaded THEN LastN(Append(written, qmsg), p2pSkipDivisor)
                          ELSE << >>
            /\ p2pSkipCounter' = (p2pSkipCounter + 1) % p2pSkipDivisor
            /\ qpc' = "for"
       ELSE /\ qpc' = "Disconnect"
            /\ UNCHANGED <<written, p2pSkipCounter>>
    /\ UNCHANGED <<iter, qmsg, sendQ, p2pSendQ, hpSendQ>>
    /\ QueuesFrame

\* a step of handleQueues
handleQueuesStep ==
    \/ handleQueuesFor
    \/ handleQueuesHP
    \/ handleQueuesP2P
    \/ handleQueuesAny
    \/ \E err \in WriteResults : handleQueuesWriteWindow(err)

NextLoad ==
    \/ handleConnStep
    \/ \E queue \in {"p2pSendQ", "sendQ"} : putPacketUnderLoad(queue, MaxLoad)
    \/ putPacketSelect
    \/ handleQueuesStep
    \/ \E c \in {"reader", "dispatcher"} : DisconnectBy(c)

SpecLoad == InitPeer /\ [][NextLoad]_vars

(***************************************************************************)
(* The peer under load on hpSendQ and sendQ, with its scheduling.  The Go  *)
(* scheduler runs a goroutine that can take a step, and a select chooses   *)
(* at random among the cases that are ready, so a case that is ready again *)
(* and again is chosen in the end.  Nothing is assumed of the callers that *)
(* enqueue, of the remote peer or of the errors.                           *)
(***************************************************************************)
NextPriority ==
    \/ handleConnStep
    \/ \E queue \in {"hpSendQ", "sendQ"} : putPacketUnderLoad(queue, MaxLoad)
    \/ putPacketSelect
    \/ handleQueuesStep
    \/ \E c \in {"reader", "dispatcher"} : DisconnectBy(c)

\* the select at position pc of handleQueues takes the message of queue q
Selects(pc, q) ==
    /\ qpc = pc
    /\ handleQueuesStep
    /\ qmsg'.from = q

FairPriority ==
    /\ WF_vars(handleQueuesStep)
    /\ WF_vars(putPacketSelect)
    /\ WF_vars(\E c \in {"reader", "dispatcher"} : DisconnectBy(c))
    /\ \A q \in Queues : SF_vars(Selects("select any", q))
    /\ \A q \in {"hpSendQ", "p2pSendQ"} : SF_vars(Selects("select p2p", q))

SpecPriority == InitPeer /\ [][NextPriority]_vars /\ FairPriority

(***************************************************************************)
(* The exit of the tasks of a peer.  Callers put packets into hpSendQ and  *)
(* StartProtocol runs.  The scheduling: a task that can take a step takes  *)
(* one, a select whose done case is ready does not wait, and a Decode or a *)
(* Write on the closed connection returns an error.  Nothing is assumed of *)
(* the callers that enqueue, of the remote peer or of the requests of      *)
(* StartProtocol.                                                          *)
(***************************************************************************)
NextExit ==
    \/ handleConnStep
    \/ putPacketUnderLoad("hpSendQ", MaxLoad)
    \/ putPacketSelect
    \/ handleQueuesStep
    \/ StartProtocol
    \/ StartProtocolSelect
    \/ \E c \in {"reader", "dispatcher", "protocol"} : DisconnectBy(c)

FairExit ==
    /\ WF_vars(handleQueuesStep)
    /\ WF_vars(putPacketSelect)
    /\ WF_vars(done /\ StartProtocolSelect)
    /\ WF_vars(closes.conn > 0 /\ handleConnStep)
    /\ \A c \in {"reader", "dispatcher", "protocol"} : WF_vars(DisconnectBy(c))

SpecExit == InitPeer /\ [][NextExit]_vars /\ FairExit

(***************************************************************************)
(* The stores.  A MemCachedStore is a layer of pairs over its parent: Get  *)
(* consults the layer first and falls through, Put and Delete change the   *)
(* layer only, and Persist flushes the layer into the parent and empties   *)
(* it.  The backend store, which has no parent, forgets a deleted key; a   *)
(* layer keeps the mark.                                                   *)
(***************************************************************************)
MaxDaos == 10
MaxDaoCalls == 4

\* Store.Get(key): NoPair stands for ErrKeyNotFound
RECURSIVE StoreGet(_, _, _)
StoreGet(st, s, key) ==
    IF st[s].mem[key] = Deleted THEN NoPair
    ELSE IF st[s].mem[key] # NoPair THEN st[s].mem[key]
    ELSE IF st[s].parent = 0 THEN NoPair
    ELSE StoreGet(st, st[s].parent, key)

StorePut(st, s, key, value) == [st EXCEPT ![s].mem[key] = value]

StoreDelete(st, s, key) == [st EXCEPT ![s].mem[key] = Deleted]

\* the pairs that a Persist of the layer writes
Written(layer) == {key \in Keys : layer[key] \notin {NoPair, Deleted}}

\* Store.Persist(): the stores after it
StoreFlush(st, s) ==
    LET p == st[s].parent
        flushed == [key \in Keys |->
                      IF st[s].mem[key] = NoPair THEN st[p].mem[key]
                      ELSE IF st[s].mem[key] = Deleted /\ st[p].parent = 0 THEN NoPair
                      ELSE st[s].mem[key]]
    IN  [st EXCEPT ![p].mem = flushed, ![s].mem = EmptyLayer]

(***************************************************************************)
(* The DAOs.  H is the three heaps, [stores, maps, daos].  An entity of    *)
(* kind k with script hash h is stored under the key <<k, h>> as the bytes *)
(* <<k, v>>; reading it back decodes the bytes.                            *)
(***************************************************************************)
Heap == [stores |-> stores, maps |-> maps, daos |-> daos]

EncodeBinary(kind, v) == <<kind, v>>
\* Nil stands for the error of a read
DecodeBinary(kind, bytes) == IF bytes[1] = kind THEN bytes[2] ELSE Nil

\* the map of a Cached that caches the entities of a kind (0: it has none)
CacheOf(dao, kind) ==
    CASE kind = "account"   -> dao.accounts
      [] kind = "contract"  -> dao.contracts
      [] kind = "balances"  -> dao.balances
      [] kind = "transfers" -> dao.transfers
      [] OTHER              -> 0

\* GetAndDecode on a Simple
GetAndDecode(H, d, kind, h) ==
    LET bytes == StoreGet(H.stores, H.daos[d].Store, <<kind, h>>)
    IN  IF bytes = NoPair THEN Nil ELSE DecodeBinary(kind, bytes)

\* what GetAccountState, GetContractState, GetNEP5Balances, GetNEP5TransferLog
\* and GetStorageItem return (Nil: an error, or no item)
RECURSIVE Get(_, _, _, _)
Get(H, d, kind, h) ==
    LET dao == H.daos[d]
    IN  IF dao.kind = "Simple" THEN GetAndDecode(H, d, kind, h)
        ELSE IF CacheOf(dao, kind) # 0 /\ H.maps[CacheOf(dao, kind)][h] # Nil
             THEN H.maps[CacheOf(dao, kind)][h]
        ELSE Get(H, dao.DAO, kind, h)

\* every read through a DAO
Reads(H, d) == [key \in Keys |-> Get(H, d, key[1], key[2])]

\* PutAccountState, PutContractState, PutNEP5Balances, PutNEP5TransferLog and
\* PutStorageItem: the heaps after the call
RECURSIVE Put(_, _, _, _, _)
Put(H, d, kind, h, v) ==
    LET dao == H.daos[d]
    IN  IF dao.kind = "Simple"
        THEN [H EXCEPT !.stores = StorePut(@, dao.Store, <<kind, h>>, EncodeBinary(kind, v))]
        ELSE CASE kind = "storage"  -> Put(H, dao.DAO, kind, h, v)
               [] kind = "contract" ->
                      Put([H EXCEPT !.maps[dao.contracts][h] = v], dao.DAO, kind, h, v)
               [] OTHER -> [H EXCEPT !.maps[CacheOf(dao, kind)][h] = v]

\* DeleteContractState and DeleteStorageItem: the heaps after the call
RECURSIVE Delete(_, _, _, _)
Delete(H, d, kind, h) ==
    LET dao == H.daos[d]
    IN  IF dao.kind = "Simple"
        THEN [H EXCEPT !.stores = StoreDelete(@, dao.Store, <<kind, h>>)]
        ELSE IF kind = "contract"
             THEN Delete([H EXCEPT !.maps[dao.contracts][h] = Nil], dao.DAO, kind, h)
             ELSE Delete(H, dao.DAO, kind, h)

\* the kinds that have a Delete
Deletable == {"contract", "storage"}

\* how many DAOs lie below d, d included
RECURSIVE Depth(_, _)
Depth(H, d) == IF H.daos[d].kind = "Simple" THEN 1 ELSE 1 + Depth(H, H.daos[d].DAO)

\* GetWrapped: the heaps after the call; the new DAO is the last of daos
RECURSIVE GetWrapped(_, _, _)
GetWrapped(H, d, over) ==
    LET dao == H.daos[d]
    IN  IF dao.kind = "Simple"
        THEN [H EXCEPT !.stores = Append(@, Store(dao.Store)),
                       !.daos = Append(@, SimpleDAO(Len(H.stores) + 1, over))]
        ELSE LET W == GetWrapped(H, dao.DAO, 0)
             IN  [W EXCEPT !.daos = Append(@, CachedDAO(Len(W.daos), dao.accounts, dao.contracts,
                                                        dao.balances, dao.transfers, over))]

\* NewCached(d): the heaps after the call; the new DAO is the last of daos
NewCached(H, d) ==
    LET W == GetWrapped(H, d, 0)
        n == Len(W.maps)
    IN  [W EXCEPT !.maps = @ \o <<EmptyMap, EmptyMap, EmptyMap, EmptyMap>>,
                  !.daos = Append(@, CachedDAO(Len(W.daos), n + 1, n + 2, n + 3, n + 4, d))]

\* the loops of Cached.Persist over a map: every cached object is put into
\* the DAO below
RECURSIVE PutCached(_, _, _, _, _)
PutCached(H, lower, kind, cache, hs) ==
    IF hs = {} THEN H
    ELSE LET h == CHOOSE x \in hs : TRUE
             H1 == IF H.maps[cache][h] = Nil THEN H
                   ELSE Put(H, lower, kind, h, H.maps[cache][h])
         IN  PutCached(H1, lower, kind, cache, hs \ {h})

\* what a Persist returns, with the heaps after it; a call that never
\* returns has the err "never returns"
Persisted(H, n, err) == [H |-> H, n |-> n, err |-> err]

\* Simple.Persist
SimplePersist(H, d) ==
    LET s == H.daos[d].Store
    IN  Persisted([H EXCEPT !.stores = StoreFlush(@, s)],
                  Cardinality(Written(H.stores[s].mem)), "nil")

\* Cached.Persist
CachedPersist(H, d) ==
    LET cd == H.daos[d]
        lowerCache == H.daos[cd.DAO]
    IN  IF lowerCache.kind = "Cached"
        THEN LET H0 == IF cd.dropNEP5Cache
                       THEN [H EXCEPT !.maps = Append(@, EmptyMap),
                                      !.daos[cd.DAO].balances = Len(H.maps) + 1]
                       ELSE H
             IN  IF H.daos[lowerCache.DAO].kind = "Simple"
                 THEN SimplePersist(H0, lowerCache.DAO)
                 ELSE Persisted(H0, 0, "never returns")
        ELSE LET H1 == PutCached(H, cd.DAO, "account", cd.accounts, ScriptHashes)
                 H2 == PutCached(H1, cd.DAO, "balances", cd.balances, ScriptHashes)
                 H3 == PutCached(H2, cd.DAO, "transfers", cd.transfers, ScriptHashes)
             IN  SimplePersist(H3, cd.DAO)

Persist(H, d) ==
    IF H.daos[d].kind = "Simple" THEN SimplePersist(H, d) ELSE CachedPersist(H, d)

\* MigrateNEP5Balances: the first loop, which finds the Simple below a Cached
RECURSIVE SimpleBelow(_, _)
SimpleBelow(H, d) ==
    IF H.daos[H.daos[d].DAO].kind = "Simple" THEN H.daos[d].DAO
    ELSE SimpleBelow(H, H.daos[d].DAO)

\* store.Seek over the balances: the accounts whose record, in the layer or
\* below it, has a tracker for the asset
SeekTracker(st, s, asset) ==
    {h \in ScriptHashes : StoreGet(st, s, <<"balances", h>>) # NoPair
                          /\ DecodeBinary("balances", StoreGet(st, s, <<"balances", h>>)) = asset}

\* MigrateNEP5Balances: the heaps after the call.  A NEP5Balances holds one
\* tracker, and its value is the asset that the tracker is under.
MigrateNEP5Balances(H, d, from, to) ==
    LET cd == H.daos[d]
        simpleDAO == SimpleBelow(H, d)
        H1 == PutCached(H, simpleDAO, "balances", cd.balances, ScriptHashes)
        store == H1.daos[simpleDAO].Store
        found == SeekTracker(H1.stores, store, from)
        upStore == [parent |-> store,
                    mem |-> [key \in Keys |->
                               IF key[1] = "balances" /\ key[2] \in found
                               THEN EncodeBinary("balances", to)
                               ELSE NoPair]]
        flushed == StoreFlush(Append(H1.stores, upStore), Len(H1.stores) + 1)
    IN  [H1 EXCEPT !.stores = SubSeq(flushed, 1, Len(H1.stores)),
                   !.daos[d].dropNEP5Cache = TRUE]

(***************************************************************************)
(* The calls on the DAOs.  A caller holds the DAOs that NewSimple,         *)
(* NewCached and GetWrapped returned to it; the DAO inside a Cached is     *)
(* reached through the Cached only.  The calls come one after the other.   *)
(***************************************************************************)
Handles == {d \in 1..Len(daos) : \A c \in 1..Len(daos) :
                daos[c].kind = "Cached" => daos[c].DAO # d}

DaoReturn(op, d, n, err) == [op |-> op, dao |-> d, n |-> n, err |-> err]

\* one more call on a DAO, as long as the bound allows and no call hangs
DaoCall ==
    /\ daoCalls < MaxDaoCalls
    /\ daoRet.err # "never returns"
    /\ daoCalls' = daoCalls + 1
    /\ UNCHANGED <<poolVars, args, peerVars, ledger, trieVars>>

SetHeap(H) ==
    /\ stores' = H.stores
    /\ maps' = H.maps
    /\ daos' = H.daos

\* the migration that the call which has just returned leaves in force
AfterMigration ==
    migration' = IF daoRet'.op = "Persist" /\ daoRet'.dao = migration.dao
                 THEN migration
                 ELSE NoMigration

GetWrappedCall(d) ==
    /\ Len(daos) + Depth(Heap, d) <= MaxDaos
    /\ DaoCall
    /\ SetHeap(GetWrapped(Heap, d, d))
    /\ daoRet' = DaoReturn("GetWrapped", Len(daos'), 0, "nil")
    /\ scope' = [wrapped |-> Len(daos'), parent |-> d, before |-> Reads(Heap, d)]
    /\ UNCHANGED persisted
    /\ AfterMigration

NewCachedCall(d) ==
    /\ Len(daos) + Depth(Heap, d) + 1 <= MaxDaos
    /\ DaoCall
    /\ SetHeap(NewCached(Heap, d))
    /\ daoRet' = DaoReturn("NewCached", Len(daos'), 0, "nil")
    /\ scope' = NoScope
    /\ UNCHANGED persisted
    /\ AfterMigration

\* the scope after a Put or a Delete on d
Scoped(d) == IF scope.wrapped = d THEN scope ELSE NoScope

PutCall(d, kind, h, v) ==
    /\ DaoCall
    /\ SetHeap(Put(Heap, d, kind, h, v))
    /\ daoRet' = DaoReturn("Put", d, 0, "nil")
    /\ scope' = Scoped(d)
    /\ persisted' = 0
    /\ AfterMigration

DeleteCall(d, kind, h) ==
    /\ DaoCall
    /\ SetHeap(Delete(Heap, d, kind, h))
    /\ daoRet' = DaoReturn("Delete", d, 0, "nil")
    /\ scope' = Scoped(d)
    /\ persisted' = 0
    /\ AfterMigration

\* Cached.GetContractState keeps what it read from the DAO below in its map
GetContractState(d, h) ==
    LET cs == Get(Heap, d, "contract", h)
    IN  /\ DaoCall
        /\ daos[d].kind = "Cached"
        /\ maps' = IF cs # Nil THEN [maps EXCEPT ![daos[d].contracts][h] = cs] ELSE maps
        /\ daoRet' = DaoReturn("GetContractState", d, cs, IF cs = Nil THEN "ErrKeyNotFound" ELSE "nil")
        /\ scope' = NoScope
        /\ UNCHANGED <<stores, daos, persisted>>
        /\ AfterMigration

PersistCall(d) ==
    LET r == Persist(Heap, d)
    IN  /\ DaoCall
        /\ SetHeap(r.H)
        /\ daoRet' = DaoReturn("Persist", d, r.n, r.err)
        /\ scope' = NoScope
        /\ persisted' = IF r.err = "nil" THEN d ELSE 0
        /\ AfterMigration

MigrateCall(d, from, to) ==
    /\ daos[d].kind = "Cached"
    /\ DaoCall
    /\ SetHeap(MigrateNEP5Balances(Heap, d, from, to))
    /\ daoRet' = DaoReturn("MigrateNEP5Balances", d, 0, "nil")
    /\ scope' = NoScope
    /\ persisted' = 0
    /\ migration' = [dao |-> d, from |-> from, to |-> to,
                     had |-> {h \in ScriptHashes : Get(Heap, d, "balances", h) = from}]

NextDAO ==
    \/ \E d \in Handles : GetWrappedCall(d)
    \/ \E d \in Handles : NewCachedCall(d)
    \/ \E d \in Handles, kind \in Kinds, h \in ScriptHashes, v \in Values : PutCall(d, kind, h, v)
    \/ \E d \in Handles, kind \in Deletable, h \in ScriptHashes : DeleteCall(d, kind, h)
    \/ \E d \in Handles, h \in ScriptHashes : GetContractState(d, h)
    \/ \E d \in Handles : PersistCall(d)
    \/ \E d \in Handles, from \in Values, to \in Values : MigrateCall(d, from, to)

SpecDAO == InitPeer /\ [][NextDAO]_vars

(***************************************************************************)
(* Blocks and transactions in a Simple.  A key is its prefix and a hash; a *)
(* value is a sequence of bytes.  A block is stored trimmed: its header,   *)
(* the number of its transactions and their hashes.  A transaction is      *)
(* stored as the index of its block in four little-endian bytes and its    *)
(* encoding, which begins with its Version.                                *)
(***************************************************************************)
MaxLedgerCalls == 5
DummyVersion == 255

TxHashes == 1..(NumLedgerHashes - 1)
BlockHash == NumLedgerHashes
\* the block indexes that transactions are stored with
Indexes == {1, 258}
\* the transactions that a block may hold
BlockContents == {<< >>, <<1>>, <<1, 2>>, <<2, 1>>}

\* the hashes of the Conflicts attributes of the transaction with hash t
Conflicts(t) ==
    CASE t = 1 -> <<3>>
      [] t = 2 -> <<1, 3>>
      [] OTHER -> << >>

WriteU32LE(i) == <<i % 256, (i \div 256) % 256, (i \div 65536) % 256, (i \div 16777216) % 256>>
ReadU32LE(b) == b[1] + 256 * b[2] + 65536 * b[3] + 16777216 * b[4]

\* tx.EncodeBinary: the Version, which is 0, and the rest
TxEncodeBinary(t) == <<0, t>>
\* block.Trim
Trim(h, txs) == <<h, Len(txs)>> \o txs

TxKey(h) == <<"DataTransaction", h>>

TxReturn(tx, height, err) == [tx |-> tx, height |-> height, err |-> err]

\* a GetTransaction that does not know the dummy version
GetTransactionNoDummy(store, hash) ==
    LET b == store[TxKey(hash)]
    IN  IF b = NoBytes THEN TxReturn(0, 0, "ErrKeyNotFound")
        ELSE IF Len(b) < 5 THEN TxReturn(0, 0, "bad transaction bytes")
        ELSE IF Len(b) < 6 THEN TxReturn(0, 0, "EOF")
        ELSE TxReturn(b[6], ReadU32LE(b), "nil")

GetTransaction(store, hash) ==
    LET b == store[TxKey(hash)]
    IN  IF b = NoBytes THEN TxReturn(0, 0, "ErrKeyNotFound")
        ELSE IF Len(b) < 5 THEN TxReturn(0, 0, "bad transaction bytes")
        ELSE IF b[5] = DummyVersion THEN TxReturn(0, 0, "ErrKeyNotFound")
        ELSE IF Len(b) < 6 THEN TxReturn(0, 0, "EOF")
        ELSE TxReturn(b[6], ReadU32LE(b), "nil")

HasTransaction(store, hash) ==
    LET bytes == store[TxKey(hash)]
    IN  IF bytes = NoBytes THEN "nil"
        ELSE IF Len(bytes) < 5 THEN "nil"
        ELSE IF bytes[5] = DummyVersion THEN "ErrHasConflicts"
        ELSE "ErrAlreadyExists"

\* StoreAsTransaction: the loop over the Conflicts attributes
RECURSIVE PutConflicts(_, _, _)
PutConflicts(store, attrs, value) ==
    IF attrs = << >> THEN store
    ELSE PutConflicts([store EXCEPT ![TxKey(Head(attrs))] = value], Tail(attrs), value)

StoreAsTransaction(store, p2p, t, index) ==
    LET stored == [store EXCEPT ![TxKey(t)] = WriteU32LE(index) \o TxEncodeBinary(t)]
    IN  IF p2p
        THEN PutConflicts(stored, Conflicts(t), WriteU32LE(index) \o <<DummyVersion>>)
        ELSE stored

StoreAsBlock(store, h, txs) == [store EXCEPT ![<<"DataBlock", h>>] = Trim(h, txs)]

PutAppExecResult(store, container) == [store EXCEPT ![<<"STNotification", container>>] = <<container>>]

\* DeleteBlock: the inner loop, over the Conflicts attributes of a transaction;
\* key is the slice that the loops write into, dels the keys given to batch.Delete
RECURSIVE DeleteConflicts(_, _, _)
DeleteConflicts(attrs, key, dels) ==
    IF attrs = << >> THEN [key |-> key, dels |-> dels]
    ELSE LET k == <<key[1], Head(attrs)>>
         IN  DeleteConflicts(Tail(attrs), k, dels \cup {k})

\* DeleteBlock: the loop over b.Transactions
RECURSIVE DeleteTransactions(_, _, _, _)
DeleteTransactions(txs, key, dels, attributes) ==
    IF txs = << >> THEN [key |-> key, dels |-> dels]
    ELSE LET k1 == <<key[1], Head(txs)>>
             r == IF attributes
                  THEN DeleteConflicts(Conflicts(Head(txs)), k1, dels \cup {k1})
                  ELSE [key |-> k1, dels |-> dels \cup {k1}]
             k2 == <<"STNotification", r.key[2]>>
         IN  DeleteTransactions(Tail(txs), k2, r.dels \cup {k2}, attributes)

\* the transactions of the block stored under h
BlockTransactions(store, h) ==
    LET bs == store[<<"DataBlock", h>>]
    IN  IF bs = NoBytes THEN << >> ELSE SubSeq(bs, 3, 2 + bs[2])

\* DeleteBlock: the store after the call.  attributed tells whether the
\* transactions of the block that is read from its trimmed bytes have their
\* attributes.
DeleteBlock(store, p2p, h, attributed) ==
    LET r == DeleteTransactions(BlockTransactions(store, h), <<"DataTransaction", h>>, {},
                                p2p /\ attributed)
        dels == r.dels \cup {<<"STNotification", h>>}
    IN  [key \in LedgerKeys |->
            IF key \in dels THEN NoBytes
            ELSE IF key = <<"DataBlock", h>> THEN <<h, 0>>
            ELSE store[key]]

LedgerReturn(op, hash, txs, err) == [op |-> op, hash |-> hash, txs |-> txs, err |-> err]

LedgerCall ==
    /\ daoCalls < MaxLedgerCalls
    /\ daoCalls' = daoCalls + 1
    /\ UNCHANGED <<poolVars, args, peerVars, stores, maps, daos, scope, persisted, migration, trieVars>>

StoreAsTransactionCall(t, index) ==
    /\ LedgerCall
    /\ ledger' = [ledger EXCEPT
                    !.Store = StoreAsTransaction(@, ledger.P2PSigExtensions, t, index)]
    /\ daoRet' = LedgerReturn("StoreAsTransaction", t, <<index>>, "nil")

StoreAsBlockCall(h, txs) ==
    /\ LedgerCall
    /\ ledger' = [ledger EXCEPT !.Store = StoreAsBlock(@, h, txs)]
    /\ daoRet' = LedgerReturn("StoreAsBlock", h, txs, "nil")

PutAppExecResultCall(container) ==
    /\ LedgerCall
    /\ ledger' = [ledger EXCEPT !.Store = PutAppExecResult(@, container)]
    /\ daoRet' = LedgerReturn("PutAppExecResult", container, << >>, "nil")

DeleteBlockCall(h, attributed) ==
    /\ LedgerCall
    /\ IF ledger.Store[<<"DataBlock", h>>] = NoBytes
       THEN /\ daoRet' = LedgerReturn("DeleteBlock", h, << >>, "ErrKeyNotFound")
            /\ UNCHANGED ledger
       ELSE /\ daoRet' = LedgerReturn("DeleteBlock", h, BlockTransactions(ledger.Store, h), "nil")
            /\ ledger' = [ledger EXCEPT
                            !.Store = DeleteBlock(@, ledger.P2PSigExtensions, h, attributed)]

InitLedger ==
    /\ NewMemPool(0)
    /\ args = NoArgs
    /\ NewTCPPeer
    /\ NewEmptyTrie
    /\ \E p2pSigExtensions \in BOOLEAN : NewSimpleOver(p2pSigExtensions)

NextLedger ==
    \/ \E t \in TxHashes, index \in Indexes : StoreAsTransactionCall(t, index)
    \/ \E txs \in BlockContents : StoreAsBlockCall(BlockHash, txs)
    \/ \E container \in LedgerHashes : PutAppExecResultCall(container)
    \/ \E attributed \in BOOLEAN : DeleteBlockCall(BlockHash, attributed)

SpecLedger == InitLedger /\ [][NextLedger]_vars

(***************************************************************************)
(* The transfer log of Simple: keys are byte strings, the store maps the   *)
(* keys written so far to the raw logs.                                    *)
(***************************************************************************)
MaxLogCalls == 4
NumTailValues == 2
Uint160Size == 20

\* accounts that differ in their last two bytes
Accounts ==
    {[i \in 1..Uint160Size |->
        IF i = Uint160Size - 1 THEN a ELSE IF i = Uint160Size THEN b ELSE 0] :
     a, b \in 0..(NumTailValues - 1)}
LogIndexes == {0, 1, 256}
Logs == {<<1>>, <<2>>}

\* make([]byte, 1+util.Uint160Size+4); key[0] = prefix; copy(key[1:], acc);
\* PutUint32(key[util.Uint160Size:], index).  Positions are 1-based here, so
\* the slice key[n:] starts at position n + 1.
getNEP17TransferLogKey(acc, index) ==
    LET size == 1 + Uint160Size + 4
        made == [i \in 1..size |-> 0]
        prefixed == [made EXCEPT ![1] = "STNEP17Transfers"]
        copied == [i \in 1..size |->
                     IF i - 1 \in 1..Len(acc) THEN acc[i - 1] ELSE prefixed[i]]
        le == WriteU32LE(index)
    IN  [i \in 1..size |->
            IF i - Uint160Size \in 1..4 THEN le[i - Uint160Size] ELSE copied[i]]

\* Simple.GetNEP17TransferLog: the empty log on ErrKeyNotFound
GetNEP17TransferLog(store, acc, index) ==
    LET key == getNEP17TransferLogKey(acc, index)
    IN  IF key \in DOMAIN store THEN store[key] ELSE << >>

\* Simple.PutNEP17TransferLog
PutNEP17TransferLog(store, acc, index, lg) ==
    LET key == getNEP17TransferLogKey(acc, index)
    IN  [k \in DOMAIN store \cup {key} |-> IF k = key THEN lg ELSE store[k]]

LogReturn(op, acc, index, lg) == [op |-> op, acc |-> acc, index |-> index, log |-> lg]

LogCall ==
    /\ daoCalls < MaxLogCalls
    /\ daoCalls' = daoCalls + 1
    /\ UNCHANGED <<poolVars, args, peerVars, stores, maps, daos, scope, persisted, migration, trieVars>>

PutNEP17TransferLogCall(acc, index, lg) ==
    /\ LogCall
    /\ ledger' = [ledger EXCEPT !.Store = PutNEP17TransferLog(@, acc, index, lg)]
    /\ daoRet' = LogReturn("PutNEP17TransferLog", acc, index, lg)

GetNEP17TransferLogCall(acc, index) ==
    /\ LogCall
    /\ daoRet' = LogReturn("GetNEP17TransferLog", acc, index,
                           GetNEP17TransferLog(ledger.Store, acc, index))
    /\ UNCHANGED ledger

InitLog ==
    /\ NewMemPool(0)
    /\ args = NoArgs
    /\ NewTCPPeer
    /\ NewEmptyTrie
    /\ ledger = [P2PSigExtensions |-> FALSE, Store |-> << >>]
    /\ stores = <<Store(0), Store(1)>>
    /\ maps = << >>
    /\ daos = <<SimpleDAO(2, 0)>>
    /\ daoRet = NoDaoCall
    /\ daoCalls = 0
    /\ scope = NoScope
    /\ persisted = 0
    /\ migration = NoMigration

NextLog ==
    \/ \E acc \in Accounts, index \in LogIndexes, lg \in Logs :
            PutNEP17TransferLogCall(acc, index, lg)
    \/ \E acc \in Accounts, index \in LogIndexes : GetNEP17TransferLogCall(acc, index)

SpecLog == InitLog /\ [][NextLog]_vars

(***************************************************************************)
(* The Merkle-Patricia trie.  A node is a record; a Hash node stands for   *)
(* the node whose serialization has its hash, and the Store holds the      *)
(* serialized nodes under their hashes.                                    *)
(***************************************************************************)
MaxTrieCalls == 2
MaxKeyLen == 2
MaxEntries == 2
MaxStop == 4
Radix == 16

lastChild == Radix
childrenCount == Radix + 1

KeyBytes == {0, 16}
TrieValues == {<<1>>, <<2>>}
RECURSIVE KeysOfLen(_)
KeysOfLen(n) ==
    IF n = 0 THEN {<< >>} ELSE {Append(k, b) : k \in KeysOfLen(n - 1), b \in KeyBytes}
TrieKeys == UNION {KeysOfLen(n) : n \in 1..MaxKeyLen}

NilNode == [type |-> "nil"]
LeafNode(v) == [type |-> "Leaf", value |-> v]
BranchNode(children) == [type |-> "Branch", Children |-> children]
ExtensionNode(k, next) == [type |-> "Extension", key |-> k, next |-> next]
IsEmpty(n) == n.hash = << >>

\* hash.DoubleSha256, taken to have no collisions
DoubleSha256(b) == <<"sha256", b>>

\* Node.Bytes and Node.Hash: a node is serialized with the hashes of its
\* children in their place
RECURSIVE Bytes(_)
Bytes(n) ==
    LET HashOf(c) == IF c.type = "Hash" THEN c.hash ELSE DoubleSha256(Bytes(c))
    IN  CASE n.type = "Leaf" -> <<"Leaf", n.value>>
          [] n.type = "Branch" ->
                <<"Branch", [i \in 1..childrenCount |-> HashOf(n.Children[i])]>>
          [] n.type = "Extension" -> <<"Extension", n.key, HashOf(n.next)>>
NodeHash(n) == IF n.type = "Hash" THEN n.hash ELSE DoubleSha256(Bytes(n))

\* the node that a serialization decodes to: its children are Hash nodes
DecodeNode(b) ==
    CASE b[1] = "Leaf" -> LeafNode(b[2])
      [] b[1] = "Branch" -> BranchNode([i \in 1..childrenCount |-> HashNode(b[2][i])])
      [] b[1] = "Extension" -> ExtensionNode(b[2], HashNode(b[3]))

StoreReturn(node, err) == [node |-> node, err |-> err]
\* Trie.getFromStore
getFromStore(store, h) ==
    IF \E b \in store : DoubleSha256(b) = h
    THEN StoreReturn(DecodeNode(CHOOSE b \in store : DoubleSha256(b) = h), "nil")
    ELSE StoreReturn(NilNode, "ErrKeyNotFound")

\* toNibbles: two nibbles for every byte of the key, the high one first
RECURSIVE toNibbles(_)
toNibbles(k) ==
    IF k = << >> THEN << >>
    ELSE <<Head(k) \div Radix, Head(k) % Radix>> \o toNibbles(Tail(k))

\* splitPath: the first nibble and the rest, or lastChild for the empty path
splitPath(path) ==
    IF Len(path) > 0 THEN [i |-> Head(path), path |-> Tail(path)]
    ELSE [i |-> lastChild, path |-> path]

HasPrefix(path, prefix) ==
    Len(prefix) <= Len(path) /\ SubSeq(path, 1, Len(prefix)) = prefix

ProofReturn(node, proofs, err) == [node |-> node, proofs |-> proofs, err |-> err]

RECURSIVE getProof(_, _, _, _)
getProof(store, curr, path, proofs) ==
    CASE curr.type = "Leaf" ->
            IF Len(path) = 0
            THEN ProofReturn(curr, Append(proofs, Bytes(curr)), "nil")
            ELSE ProofReturn(NilNode, proofs, "ErrNotFound")
      [] curr.type = "Branch" ->
            LET s == splitPath(path)
                r == getProof(store, curr.Children[s.i + 1], s.path,
                              Append(proofs, Bytes(curr)))
            IN  IF r.err # "nil" THEN ProofReturn(NilNode, r.proofs, r.err)
                ELSE ProofReturn([curr EXCEPT !.Children[s.i + 1] = r.node], r.proofs, "nil")
      [] curr.type = "Extension" ->
            IF HasPrefix(path, curr.key)
            THEN LET r == getProof(store, curr.next,
                                   SubSeq(path, Len(curr.key) + 1, Len(path)),
                                   Append(proofs, Bytes(curr)))
                 IN  IF r.err # "nil" THEN ProofReturn(NilNode, r.proofs, r.err)
                     ELSE ProofReturn([curr EXCEPT !.next = r.node], r.proofs, "nil")
            ELSE ProofReturn(NilNode, proofs, "ErrNotFound")
      [] curr.type = "Hash" ->
            IF ~IsEmpty(curr)
            THEN LET r == getFromStore(store, curr.hash)
                 IN  IF r.err # "nil" THEN ProofReturn(NilNode, proofs, r.err)
                     ELSE getProof(store, r.node, path, proofs)
            ELSE ProofReturn(NilNode, proofs, "ErrNotFound")

\* GetProof that leaves the node that the root resolves to out of the proof
GetProofBelowRoot(t, k) ==
    LET r == getProof(t.Store, t.root, toNibbles(k), << >>)
    IN  IF r.err # "nil" THEN [trie |-> t, proof |-> r.proofs, err |-> r.err]
        ELSE [trie |-> [t EXCEPT !.root = r.node], proof |-> Tail(r.proofs), err |-> "nil"]

\* Trie.GetProof: the trie after the call, the proof and the error
GetProof(t, k) ==
    LET r == getProof(t.Store, t.root, toNibbles(k), << >>)
    IN  IF r.err # "nil" THEN [trie |-> t, proof |-> r.proofs, err |-> r.err]
        ELSE [trie |-> [t EXCEPT !.root = r.node], proof |-> r.proofs, err |-> "nil"]

\* Trie.getWithPath: the value bytes and the error
RECURSIVE getWithPath(_, _, _)
getWithPath(store, curr, path) ==
    CASE curr.type = "Leaf" ->
            IF Len(path) = 0 THEN [bs |-> curr.value, err |-> "nil"]
            ELSE [bs |-> << >>, err |-> "ErrNotFound"]
      [] curr.type = "Branch" ->
            LET s == splitPath(path)
            IN  getWithPath(store, curr.Children[s.i + 1], s.path)
      [] curr.type = "Extension" ->
            IF HasPrefix(path, curr.key)
            THEN getWithPath(store, curr.next, SubSeq(path, Len(curr.key) + 1, Len(path)))
            ELSE [bs |-> << >>, err |-> "ErrNotFound"]
      [] curr.type = "Hash" ->
            IF ~IsEmpty(curr)
            THEN LET r == getFromStore(store, curr.hash)
                 IN  IF r.err # "nil" THEN [bs |-> << >>, err |-> r.err]
                     ELSE getWithPath(store, r.node, path)
            ELSE [bs |-> << >>, err |-> "ErrNotFound"]

\* VerifyProof: a trie over rh whose store holds the proofs under their hashes
VerifyProof(rh, k, proofs) ==
    LET store == {proofs[i] : i \in DOMAIN proofs}
        r == getWithPath(store, HashNode(rh), toNibbles(k))
    IN  <<r.bs, r.err = "nil">>

WalkReturn(node, self, visited, err) ==
    [node |-> node, self |-> self, visited |-> visited, err |-> err]
Visit(curr, pos) == [pos |-> pos, type |-> curr.type, bytes |-> Bytes(curr)]

\* Trie.traverse with a process that returns true at its call number stop.
\* node is what the call returns, self is the node that curr points to as the
\* call leaves it: the assignments to n.Children[i] and n.next are made in place
RECURSIVE traverse(_, _, _, _, _, _)
RECURSIVE traverseChildren(_, _, _, _, _, _, _)
traverse(store, curr, pos, visited, stop, ignoreStorageErr) ==
    IF curr.type = "Hash"
    THEN IF ~IsEmpty(curr)
         THEN LET g == getFromStore(store, curr.hash)
              IN  IF g.err # "nil"
                  THEN IF ignoreStorageErr /\ g.err = "ErrKeyNotFound"
                       THEN WalkReturn(curr, curr, visited, "nil")
                       ELSE WalkReturn(curr, curr, visited, g.err)
                  ELSE [traverse(store, g.node, pos, visited, stop, ignoreStorageErr)
                            EXCEPT !.self = curr]
         ELSE WalkReturn(curr, curr, visited, "nil")
    ELSE LET seen == Append(visited, Visit(curr, pos))
         IN  IF Len(seen) = stop THEN WalkReturn(curr, curr, seen, "errStop")
             ELSE CASE curr.type = "Leaf" -> WalkReturn(curr, curr, seen, "nil")
                    [] curr.type = "Branch" ->
                          traverseChildren(store, curr, 0, pos, seen, stop, ignoreStorageErr)
                    [] curr.type = "Extension" ->
                          LET r == traverse(store, curr.next, Append(pos, 0), seen, stop,
                                            ignoreStorageErr)
                              n == [curr EXCEPT !.next = r.node]
                          IN  IF r.err # "nil" /\ r.err # "errStop"
                              THEN WalkReturn(NilNode, [curr EXCEPT !.next = r.self],
                                              r.visited, r.err)
                              ELSE WalkReturn(n, n, r.visited, r.err)
                    [] OTHER -> WalkReturn(NilNode, curr, seen, "ErrNotFound")

\* the loop over n.Children from the child i on
traverseChildren(store, n, i, pos, visited, stop, ignoreStorageErr) ==
    IF i = childrenCount THEN WalkReturn(n, n, visited, "nil")
    ELSE LET r == traverse(store, n.Children[i + 1], Append(pos, i), visited, stop,
                           ignoreStorageErr)
             m == [n EXCEPT !.Children[i + 1] = r.node]
         IN  IF r.err # "nil"
             THEN IF r.err # "errStop"
                  THEN WalkReturn(NilNode, [n EXCEPT !.Children[i + 1] = r.self],
                                  r.visited, r.err)
                  ELSE WalkReturn(m, m, r.visited, r.err)
             ELSE traverseChildren(store, m, i + 1, pos, r.visited, stop, ignoreStorageErr)

\* Traverse that returns the halt as an error and keeps the root
TraverseFailingOnStop(t, stop, ignoreStorageErr) ==
    LET r == traverse(t.Store, t.root, << >>, << >>, stop, ignoreStorageErr)
    IN  IF r.err # "nil"
        THEN [trie |-> [t EXCEPT !.root = r.self], visited |-> r.visited, err |-> r.err]
        ELSE [trie |-> [t EXCEPT !.root = r.node], visited |-> r.visited, err |-> "nil"]

\* Trie.Traverse: the trie after the call, the nodes passed to process, the error
Traverse(t, stop, ignoreStorageErr) ==
    LET r == traverse(t.Store, t.root, << >>, << >>, stop, ignoreStorageErr)
    IN  IF r.err # "nil" /\ r.err # "errStop"
        THEN [trie |-> [t EXCEPT !.root = r.self], visited |-> r.visited, err |-> r.err]
        ELSE [trie |-> [t EXCEPT !.root = r.node], visited |-> r.visited, err |-> "nil"]

\* The tries that the calls are made on: the canonical trie of a set of
\* entries (paths of nibbles and values), its nodes stored, and its root
\* resolved down to some depth.
RECURSIVE CommonPrefix(_)
CommonPrefix(paths) ==
    IF \E p \in paths : p = << >> THEN << >>
    ELSE LET p0 == CHOOSE p \in paths : TRUE
         IN  IF \A p \in paths : Head(p) = Head(p0)
             THEN <<Head(p0)>> \o CommonPrefix({Tail(p) : p \in paths})
             ELSE << >>

RECURSIVE Build(_)
Build(kv) ==
    IF kv = {} THEN EmptyHash
    ELSE IF Cardinality(kv) = 1
    THEN LET e == CHOOSE e \in kv : TRUE
         IN  IF e[1] = << >> THEN LeafNode(e[2]) ELSE ExtensionNode(e[1], LeafNode(e[2]))
    ELSE LET cp == CommonPrefix({e[1] : e \in kv})
         IN  IF cp # << >>
             THEN ExtensionNode(cp, Build({<<SubSeq(e[1], Len(cp) + 1, Len(e[1])), e[2]>> :
                                             e \in kv}))
             ELSE BranchNode([i \in 1..childrenCount |->
                    IF i = lastChild + 1
                    THEN Build({e \in kv : e[1] = << >>})
                    ELSE Build({<<Tail(e[1]), e[2]>> :
                                  e \in {e \in kv : e[1] # << >> /\ Head(e[1]) = i - 1}})])

\* the children of a resolved node
ChildrenOf(n) ==
    CASE n.type = "Branch" -> n.Children
      [] n.type = "Extension" -> <<n.next>>
      [] OTHER -> << >>

RECURSIVE NodesOf(_)
NodesOf(n) ==
    IF n.type = "Hash" THEN {}
    ELSE {Bytes(n)} \cup UNION {NodesOf(ChildrenOf(n)[i]) : i \in DOMAIN ChildrenOf(n)}

RECURSIVE Collapse(_, _)
Collapse(n, depth) ==
    CASE n.type = "Hash" -> n
      [] depth = 0 -> HashNode(NodeHash(n))
      [] n.type = "Leaf" -> n
      [] n.type = "Branch" ->
            BranchNode([i \in 1..childrenCount |-> Collapse(n.Children[i], depth - 1)])
      [] n.type = "Extension" -> ExtensionNode(n.key, Collapse(n.next, depth - 1))

RECURSIVE Contents(_)
Contents(n) ==
    IF n = 0 THEN {{}}
    ELSE LET less == Contents(n - 1)
             More(kv) == {kv \cup {<<k, v>>} :
                            k \in {k \in TrieKeys : \A e \in kv : e[1] # k}, v \in TrieValues}
         IN  less \cup UNION {More(kv) : kv \in less}

TrieCall ==
    /\ trieCalls < MaxTrieCalls
    /\ trieCalls' = trieCalls + 1
    /\ UNCHANGED <<poolVars, args, peerVars, daoVars, entries>>

GetProofCall(k) ==
    /\ TrieCall
    /\ LET r == GetProof(trie, k)
       IN  /\ trie' = r.trie
           /\ trieRet' = [op |-> "GetProof", key |-> k, proof |-> r.proof, err |-> r.err]

VerifyProofCall(k) ==
    /\ TrieCall
    /\ trieRet.op = "GetProof"
    /\ LET r == VerifyProof(NodeHash(trie.root), k, trieRet.proof)
       IN  trieRet' = [op |-> "VerifyProof", key |-> k, proved |-> trieRet.key,
                       bs |-> r[1], ok |-> r[2]]
    /\ UNCHANGED trie

TraverseCall(stop, ignoreStorageErr) ==
    /\ TrieCall
    /\ LET r == Traverse(trie, stop, ignoreStorageErr)
       IN  /\ trie' = r.trie
           /\ trieRet' = [op |-> "Traverse", stop |-> stop, visited |-> r.visited,
                          err |-> r.err, root |-> trie.root]

InitTrie ==
    /\ NewMemPool(0)
    /\ args = NoArgs
    /\ NewTCPPeer
    /\ NewSimple
    /\ \E kv \in Contents(MaxEntries) :
         LET full == Build({<<toNibbles(e[1]), e[2]>> : e \in kv})
         IN  /\ entries = kv
             /\ \E depth \in 0..(2 * MaxKeyLen + 1), lost \in NodesOf(full) \cup {<< >>} :
                    trie = [root |-> Collapse(full, depth), Store |-> NodesOf(full) \ {lost}]
    /\ trieRet = NoTrieCall
    /\ trieCalls = 0

NextTrie ==
    \/ \E k \in TrieKeys : GetProofCall(k)
    \/ \E k \in TrieKeys : VerifyProofCall(k)
    \/ \E stop \in 0..MaxStop, ignoreStorageErr \in BOOLEAN : TraverseCall(stop, ignoreStorageErr)

SpecTrie == InitTrie /\ [][NextTrie]_vars

(***************************************************************************)
(* What the properties below speak about.                                  *)
(***************************************************************************)
\* the sum of SystemFee + NetworkFee of the transactions of sender s in list
RECURSIVE PooledFees(_, _)
PooledFees(list, s) ==
    IF list = << >> THEN 0
    ELSE (IF Tx(Head(list).txn).Sender = s
          THEN Tx(Head(list).txn).SystemFee + Tx(Head(list).txn).NetworkFee
          ELSE 0) + PooledFees(Tail(list), s)

\* how often x occurs in a sequence
Occurrences(seq, x) == Cardinality({i \in 1..Len(seq) : seq[i] = x})

\* how often x occurs among the inputs of the transactions of list
RECURSIVE PooledOccurrences(_, _)
PooledOccurrences(list, x) ==
    IF list = << >> THEN 0
    ELSE Occurrences(Tx(Head(list).txn).Inputs, x) + PooledOccurrences(Tail(list), x)

\* every input some transaction of the model spends
AllInputs == UNION {{Tx(h).Inputs[i] : i \in 1..Len(Tx(h).Inputs)} : h \in Hashes}

\* transactions a and b spend a common input
SharesInput(a, b) ==
    \E i \in 1..Len(Tx(a).Inputs), j \in 1..Len(Tx(b).Inputs) : Tx(a).Inputs[i] = Tx(b).Inputs[j]

\* the balance of the sender of b covers its pooled fees plus those of b
SufficientBalance(b) ==
    LET need == PooledFees(verifiedTxes, Tx(b).Sender) + Tx(b).SystemFee + Tx(b).NetworkFee
    IN  IF Tx(b).Sender \in DOMAIN fees
        THEN need <= fees[Tx(b).Sender].balance
        ELSE \A bal \in Balances : need <= bal

\* the last call was Add and returned err
AddReturned(err) == last.op = "Add" /\ last.err = err

(***************************************************************************)
(* C1: in every reachable state the hashes of verifiedMap are exactly the  *)
(* hashes of the items of verifiedTxes.                                    *)
(***************************************************************************)
C1_MapEqualsList == DOMAIN verifiedMap = ListHashes(verifiedTxes)

(***************************************************************************)
(* C2: in every reachable state inputs is sorted and holds exactly the     *)
(* inputs of the transactions of verifiedTxes, each as often as they do.   *)
(***************************************************************************)
C2_InputsOfPooled ==
    /\ \A i \in 1..Len(inputs) - 1 : InputCmp(inputs[i], inputs[i + 1]) <= 0
    /\ \A x \in AllInputs : Occurrences(inputs, x) = PooledOccurrences(verifiedTxes, x)

(***************************************************************************)
(* C3: in every reachable state, for every sender with an entry in fees,   *)
(* feeSum is the sum of the fees of the sender's pooled transactions.      *)
(***************************************************************************)
C3_FeeSumOfPooled ==
    \A s \in DOMAIN fees : fees[s].feeSum = PooledFees(verifiedTxes, s)

(***************************************************************************)
(* C4: in every reachable state verifiedTxes is sorted strictly descending *)
(* by CompareTo: each item compares greater than its successor.            *)
(***************************************************************************)
C4_SortedDescending ==
    \A i \in 1..Len(verifiedTxes) - 1 : CompareTo(verifiedTxes[i], verifiedTxes[i + 1]) > 0

\* an Add has put its item between two others
C4_Witness ==
    /\ AddReturned("nil")
    /\ Len(verifiedTxes) = 3
    /\ verifiedTxes[2].txn = last.txn

(***************************************************************************)
(* C5: in every reachable state Count is at most the capacity.             *)
(***************************************************************************)
C5_CountAtMostCapacity == Count <= capacity

\* an Add into a full pool has succeeded
C5_Witness == AddReturned("nil") /\ last.gone # 0 /\ Count = capacity

(***************************************************************************)
(* C6: whenever Add(t) has returned ErrConflict, an input of t is an input *)
(* of a transaction of the pool, or the fees of the sender's pooled        *)
(* transactions plus the fees of t exceed the sender's balance snapshot.   *)
(***************************************************************************)
C6_ConflictJustified ==
    AddReturned("ErrConflict") =>
        \/ \E i \in 1..Len(verifiedTxes) : SharesInput(verifiedTxes[i].txn, last.txn)
        \/ /\ Tx(last.txn).Sender \in DOMAIN fees
           /\ PooledFees(verifiedTxes, Tx(last.txn).Sender)
                + Tx(last.txn).SystemFee + Tx(last.txn).NetworkFee
                > fees[Tx(last.txn).Sender].balance

(***************************************************************************)
(* C7: whenever Add(t) has returned ErrOOM, the pool holds capacity items  *)
(* and t compares less than or equal to every one of them, and less than   *)
(* those of another hash.                                                  *)
(***************************************************************************)
C7_OOMOnlyWhenOutranked ==
    AddReturned("ErrOOM") =>
        /\ Count = capacity
        /\ \A i \in 1..Len(verifiedTxes) :
              /\ CompareTo(Item(last.txn, last.isLowPrio), verifiedTxes[i]) <= 0
              /\ verifiedTxes[i].txn # last.txn =>
                    CompareTo(Item(last.txn, last.isLowPrio), verifiedTxes[i]) < 0

\* an Add into a full pool of two or more items was turned down
C7_Witness == AddReturned("ErrOOM") /\ Count >= 2

(***************************************************************************)
(* C8: an Add(t) into a full pool that passes the conflict and duplicate   *)
(* checks, t comparing greater than some pooled item, returns nil; the     *)
(* last item of verifiedTxes, and no other, leaves the list and the map, t *)
(* enters both, the list stays sorted and Count stays the capacity.        *)
(***************************************************************************)
C8_EvictsLowest ==
    [][(/\ calls' = calls + 1
        /\ last'.op = "Add"
        /\ last'.err \notin {"ErrConflict", "ErrDup"}
        /\ Count = capacity
        /\ \E i \in 1..Len(verifiedTxes) :
              CompareTo(Item(last'.txn, last'.isLowPrio), verifiedTxes[i]) > 0)
       => LET lowest == verifiedTxes[Len(verifiedTxes)]
              pItem == Item(last'.txn, last'.isLowPrio)
          IN  /\ last'.err = "nil"
              /\ lowest.txn \notin DOMAIN verifiedMap'
              /\ DOMAIN verifiedMap' = (DOMAIN verifiedMap \cup {pItem.txn}) \ {lowest.txn}
              /\ verifiedMap'[pItem.txn] = pItem
              /\ Len(verifiedTxes') = capacity
              /\ {verifiedTxes'[i] : i \in 1..Len(verifiedTxes')}
                   = ({verifiedTxes[i] : i \in 1..Len(verifiedTxes)} \cup {pItem}) \ {lowest}
              /\ \A i \in 1..Len(verifiedTxes') - 1 :
                    CompareTo(verifiedTxes'[i], verifiedTxes'[i + 1]) > 0
      ]_vars

\* capacity 3, network fees 30, 20, 10 pooled, and the Add of fee 25 has
\* evicted fee 10: the list reads 30, 25, 20
C8_Witness ==
    /\ capacity = 3
    /\ AddReturned("nil")
    /\ Tx(last.txn).NetworkFee = 25
    /\ last.gone # 0
    /\ Tx(last.gone).NetworkFee = 10
    /\ Len(verifiedTxes) = 3
    /\ [i \in 1..3 |-> Tx(verifiedTxes[i].txn).NetworkFee] = <<30, 25, 20>>
    /\ ~ContainsKey(last.gone)

(***************************************************************************)
(* C9: after Add(t) has returned nil ContainsKey(t.Hash()) is true, a hash *)
(* leaves verifiedMap only by Remove of that hash, by the eviction of an   *)
(* Add or in RemoveStale, and after Remove(h) ContainsKey(h) is false.     *)
(***************************************************************************)
C9_ContainsKey ==
    [][/\ (last'.op = "Add" /\ last'.err = "nil") => last'.txn \in DOMAIN verifiedMap'
       /\ last'.op = "Remove" => last'.txn \notin DOMAIN verifiedMap'
       /\ \A h \in Hashes :
             (h \in DOMAIN verifiedMap /\ h \notin DOMAIN verifiedMap') =>
                 \/ last'.op = "Remove" /\ last'.txn = h
                 \/ last'.op = "Add" /\ last'.err = "nil" /\ last'.gone = h
                 \/ last'.op = "RemoveStale" /\ h \in ListHashes(verifiedTxes)
                      /\ h \notin ListHashes(verifiedTxes')
      ]_vars

\* a pooled transaction has been removed while others stay
C9_Witness ==
    /\ last.op = "Remove"
    /\ last.gone = last.txn
    /\ ~ContainsKey(last.txn)
    /\ Count >= 1

(***************************************************************************)
(* C10: while a transaction A spending input X is pooled, Add(B) of        *)
(* another transaction B spending X returns ErrConflict; an Add(B) right   *)
(* after Remove(A.Hash()) has taken A from the pool returns nil when no    *)
(* other pooled transaction shares an input with B, the balance of the     *)
(* sender of B covers its pooled fees plus those of B, and the pool has    *)
(* room.                                                                   *)
(***************************************************************************)
C10_ConflictUntilRemoved ==
    [][(calls' = calls + 1 /\ last'.op = "Add") =>
        LET b == last'.txn
        IN  /\ (\E i \in 1..Len(verifiedTxes) :
                   verifiedTxes[i].txn # b /\ SharesInput(verifiedTxes[i].txn, b))
                => last'.err = "ErrConflict"
            /\ (/\ last.op = "Remove"
                /\ last.gone = last.txn
                /\ last.txn # b
                /\ SharesInput(last.txn, b)
                /\ \A i \in 1..Len(verifiedTxes) : ~SharesInput(verifiedTxes[i].txn, b)
                /\ SufficientBalance(b)
                /\ Count < capacity)
                => last'.err = "nil"
      ]_vars

\* the collections of the pool
poolState == <<verifiedMap, verifiedTxes, inputs, fees>>

(***************************************************************************)
(* C11: a Remove(h) for a hash h that verifiedMap does not hold changes    *)
(* nothing in verifiedMap, verifiedTxes, inputs or fees, and a Remove(h)   *)
(* that directly follows a Remove(h) of the same hash changes nothing in   *)
(* them either.                                                            *)
(***************************************************************************)
C11_RemoveAbsentIsNoOp ==
    [][(calls' = calls + 1 /\ last'.op = "Remove") =>
           /\ (last'.txn \notin DOMAIN verifiedMap => UNCHANGED poolState)
           /\ (last.op = "Remove" /\ last.txn = last'.txn => UNCHANGED poolState)]_vars

\* a Remove of a hash the pool does not hold has returned on a pool that holds others
C11_Witness ==
    /\ last.op = "Remove"
    /\ last.gone = 0
    /\ last.txn \notin DOMAIN verifiedMap
    /\ last.txn \notin ListHashes(verifiedTxes)
    /\ verifiedTxes # << >>
    /\ inputs # << >>
    /\ fees # << >>
    /\ calls >= 3

\* RemoveStale as the specification words it: whether the k-th item of list
\* is kept, and the fee sum of sender s accumulated over the first k items
RECURSIVE StaleSum(_, _, _, _, _)
RECURSIVE StaleKeeps(_, _, _, _)
StaleKeeps(list, k, isOK, balance) ==
    LET t == Tx(list[k].txn)
    IN  /\ list[k].txn \in isOK
        /\ Fixed8Add(Fixed8Add(StaleSum(list, k - 1, t.Sender, isOK, balance), t.SystemFee),
                     t.NetworkFee) <= balance[t.Sender]

StaleSum(list, k, s, isOK, balance) ==
    IF k = 0 THEN 0
    ELSE LET t == Tx(list[k].txn)
             sum == StaleSum(list, k - 1, s, isOK, balance)
         IN  IF t.Sender = s /\ StaleKeeps(list, k, isOK, balance)
             THEN Fixed8Add(sum, Fixed8Add(t.SystemFee, t.NetworkFee))
             ELSE sum

\* the positions of list that are kept, in ascending order
StaleKept(list, isOK, balance) ==
    SelectSeq([k \in 1..Len(list) |-> k], LAMBDA k : StaleKeeps(list, k, isOK, balance))

(***************************************************************************)
(* C12: RemoveStale(isOK, feer) keeps an item exactly when isOK accepts    *)
(* its transaction and the fee sum accumulated for its sender over the     *)
(* items kept before it, plus its own fees, does not exceed the balance    *)
(* fetched in this call; the kept items keep their order, the dropped ones *)
(* leave verifiedMap, inputs holds the inputs of the kept items, sorted,   *)
(* and fees holds for each sender of an accepted item the fetched balance  *)
(* and the fee sum of its kept items.  An item that is dropped does not    *)
(* stop later items of the same sender from being kept.  The sums are      *)
(* Fixed8 sums.                                                            *)
(***************************************************************************)
C12_RemoveStaleKeeps ==
    [][(calls' = calls + 1 /\ args'.f = "RemoveStale") =>
           LET kept == StaleKept(verifiedTxes, args'.isOK, args'.balance)
               n == Len(verifiedTxes)
               dropped == {verifiedTxes[k].txn : k \in 1..n} \
                              {verifiedTxes[kept[i]].txn : i \in 1..Len(kept)}
           IN  /\ verifiedTxes' = [i \in 1..Len(kept) |-> verifiedTxes[kept[i]]]
               /\ DOMAIN verifiedMap' = DOMAIN verifiedMap \ dropped
               /\ \A i \in 1..Len(inputs') - 1 : InputCmp(inputs'[i], inputs'[i + 1]) <= 0
               /\ \A x \in AllInputs : Occurrences(inputs', x) = PooledOccurrences(verifiedTxes', x)
               /\ DOMAIN fees' = {Tx(h).Sender : h \in args'.isOK}
               /\ \A s \in DOMAIN fees' :
                      /\ fees'[s].balance = args'.balance[s]
                      /\ fees'[s].feeSum = StaleSum(verifiedTxes, n, s, args'.isOK, args'.balance)]_vars

\* S6: transactions 4 and 6 of sender 2, fees 5 each, were pooled and accepted
\* by isOK, the fetched balance was 8: the one of higher priority is left
C12_Witness ==
    /\ args.f = "RemoveStale"
    /\ args.isOK = {4, 6}
    /\ args.balance[2] = 8
    /\ ListHashes(verifiedTxes) = {4}
    /\ fees[2].feeSum = 5

\* an item of sender 2 was dropped for its fees and a later one of the same sender kept
C12_LaterItemKept ==
    /\ args.f = "RemoveStale"
    /\ args.isOK = {3, 4}
    /\ args.balance[2] = 8
    /\ ListHashes(verifiedTxes) = {4}

(***************************************************************************)
(* C13: Verify changes nothing in verifiedMap, verifiedTxes, inputs or     *)
(* fees, the balance snapshot of a sender met for the first time included. *)
(***************************************************************************)
C13_VerifyMutatesNothing ==
    [][(calls' = calls + 1 /\ args'.f = "Verify") => UNCHANGED poolState]_vars

(***************************************************************************)
(* C15: the fee sums never wrap around: an Add that admits a transaction   *)
(* has found the fee sum of its sender plus the fees of the transaction,   *)
(* summed as integers, not above the balance of the sender, and leaves     *)
(* that sum, as an integer, in fees.                                       *)
(***************************************************************************)
C15_NoWrapAround ==
    [][(calls' = calls + 1 /\ args'.f = "Add" /\ last'.err = "nil") =>
           LET t == Tx(args'.txn)
               need == FeesGet(fees, t.Sender).feeSum + t.SystemFee + t.NetworkFee
               balance == IF t.Sender \in DOMAIN fees THEN fees[t.Sender].balance
                          ELSE args'.bal
           IN  /\ need <= balance
               /\ fees'[t.Sender].feeSum = need]_vars

\* a wins against b by the order the pool ranks its items in
Outranks(a, b) ==
    LET fa == Tx(a.txn).NetworkFee \div Tx(a.txn).Size
        fb == Tx(b.txn).NetworkFee \div Tx(b.txn).Size
    IN  \/ ~a.isLowPrio /\ b.isLowPrio
        \/ /\ a.isLowPrio = b.isLowPrio
           /\ \/ fa > fb
              \/ fa = fb /\ Tx(a.txn).NetworkFee > Tx(b.txn).NetworkFee
              \/ fa = fb /\ Tx(a.txn).NetworkFee = Tx(b.txn).NetworkFee /\ a.txn < b.txn

(***************************************************************************)
(* C14: CompareTo is a strict total order on items with distinct hashes:   *)
(* CompareTo(a, b) is positive exactly when a is of normal and b of low    *)
(* priority or, the classes being equal, a has the higher fee per byte,    *)
(* then the higher network fee, then the smaller hash; CompareTo(a, b)     *)
(* and CompareTo(b, a) have opposite signs; the result is 0 only for       *)
(* equal hashes; and a over b, b over c give a over c.                     *)
(***************************************************************************)
C14_StrictTotalOrder ==
    (args.f = "CompareTo" /\ args.applied) =>
        /\ args.a.txn # args.b.txn =>
               /\ (args.ab > 0) = Outranks(args.a, args.b)
               /\ (args.ab < 0) = Outranks(args.b, args.a)
               /\ args.ab # 0
               /\ (args.ab > 0) = (args.ba < 0)
               /\ (args.ab < 0) = (args.ba > 0)
        /\ args.ab = 0 => args.a.txn = args.b.txn
        /\ (args.ab > 0 /\ args.bc > 0) => args.ac > 0

\* three items with three hashes were compared; the first two are of one
\* class with equal fees, so that the hash decided, and both outrank the third
C14_Witness ==
    /\ args.f = "CompareTo"
    /\ args.applied
    /\ args.a = Item(7, FALSE)
    /\ args.b = Item(8, FALSE)
    /\ args.c = Item(2, TRUE)
    /\ args.ab > 0
    /\ args.bc > 0
    /\ args.ac > 0

\* the handshake methods
HandshakeMethods == {"SendVersion", "HandleVersion", "SendVersionAck", "HandleVersionAck"}

(***************************************************************************)
(* C16: a handshake method called with its precondition unmet returns an   *)
(* error: SendVersion with versionSent set, HandleVersion with             *)
(* versionReceived set, SendVersionAck unless versionSent and              *)
(* versionReceived are set and verAckSent is clear, HandleVersionAck       *)
(* unless versionSent and versionReceived are set and verAckReceived is    *)
(* clear; a call that returns an error leaves handShake as it was; and     *)
(* verAckSent or verAckReceived is set only with versionSent and           *)
(* versionReceived set.                                                    *)
(***************************************************************************)
C16_HandshakePreconditions ==
    [][(shakes' = shakes + 1 /\ ret'.op \in HandshakeMethods) =>
           LET both == versionSent \in handShake /\ versionReceived \in handShake
               unmet == CASE ret'.op = "SendVersion" -> versionSent \in handShake
                          [] ret'.op = "HandleVersion" -> versionReceived \in handShake
                          [] ret'.op = "SendVersionAck" -> ~(both /\ verAckSent \notin handShake)
                          [] ret'.op = "HandleVersionAck" ->
                                 ~(both /\ verAckReceived \notin handShake)
           IN  /\ unmet => ret'.err # "nil"
               /\ ret'.err # "nil" => handShake' = handShake
               /\ (verAckSent \in handShake' \/ verAckReceived \in handShake') =>
                      (versionSent \in handShake' /\ versionReceived \in handShake')]_vars

\* SendVersionAck was called before a Version was received and has failed
C16_Witness ==
    /\ ret.op = "SendVersionAck"
    /\ ret.err # "nil"
    /\ handShake = {versionSent}

(***************************************************************************)
(* C17: Handshaked() returns true exactly when the four bits versionSent,  *)
(* versionReceived, verAckSent and verAckReceived are set, and no step     *)
(* clears a bit of handShake, so that Handshaked() stays true once it is.  *)
(***************************************************************************)
C17_HandshakedIffAllFour ==
    [][/\ handShake \subseteq handShake'
       /\ (shakes' = shakes + 1 /\ ret'.op = "Handshaked") =>
              (ret'.err = "true") = ({versionSent, versionReceived, verAckSent, verAckReceived} \subseteq handShake')]_vars

\* S4: after SendVersion, HandleVersion, SendVersionAck and HandleVersionAck
\* have succeeded, the fifth call, Handshaked(), returns true
C17_Witness ==
    /\ shakes = 5
    /\ ret = Return("Handshaked", "true")
    /\ handShake = {versionSent, versionReceived, verAckSent, verAckReceived}

(***************************************************************************)
(* C18: however the calls of Disconnect by handleConn, handleQueues,       *)
(* StartProtocol and the ping timer interleave, done is closed at most     *)
(* once, the connection is closed at most once and at most one peerDrop    *)
(* is sent to the server; once a call of Disconnect has returned, each of  *)
(* the three has happened exactly once and the peerDrop carries the error  *)
(* of the caller whose Disconnect was invoked first.                       *)
(***************************************************************************)
C18_DisconnectOnce ==
    /\ closes.done <= 1
    /\ closes.conn <= 1
    /\ Len(unregister) <= 1
    /\ (\E c \in Callers : dpc[c] = "returned") =>
           /\ done
           /\ closes.done = 1
           /\ closes.conn = 1
           /\ unregister = <<errOf(closes.first)>>

\* the four callers have called Disconnect and returned; the ping timer was first
C18_Witness ==
    /\ \A c \in Callers : dpc[c] = "returned"
    /\ closes.first = "timer"
    /\ unregister = <<"errPingPong">>
    /\ closes.done = 1
    /\ closes.conn = 1

(***************************************************************************)
(* C19: a putPacketIntoQueue of a handshaked peer that starts when done is *)
(* already closed returns errGone and leaves the three queues as they are. *)
(***************************************************************************)
C19_GoneAfterDone ==
    [][(enq.pc = "select" /\ enq'.pc = "idle" /\ enq.doneBefore) =>
           /\ ret'.err = "errGone"
           /\ UNCHANGED <<sendQ, p2pSendQ, hpSendQ>>]_vars

(***************************************************************************)
(* C20: a message that handleQueues writes in an iteration that began with *)
(* hpSendQ not empty and done not closed is the message that was the head  *)
(* of hpSendQ then, taken from hpSendQ; no message of p2pSendQ or sendQ is *)
(* written in such an iteration.                                           *)
(***************************************************************************)
C20_HighPriorityFirst ==
    [][(Len(written') = Len(written) + 1 /\ iter.hp # << >> /\ ~iter.done) =>
           written'[Len(written')] = [id |-> Head(iter.hp), from |-> "hpSendQ"]]_vars

\* handleQueues has written the head of hpSendQ in an iteration that began
\* with an older message waiting in another queue
C20_Witness ==
    /\ qpc = "for"
    /\ written # << >>
    /\ iter.hp # << >>
    /\ ~iter.done
    /\ written[Len(written)] = [id |-> Head(iter.hp), from |-> "hpSendQ"]
    /\ \/ p2pSendQ # << >> /\ Head(p2pSendQ) < Head(iter.hp)
       \/ sendQ # << >> /\ Head(sendQ) < Head(iter.hp)


\* handleQueues has just written a message of queue q
WrittenFrom(q) == qpc = "for" /\ qmsg.from = q

\* how many of the messages of a sequence of written messages came from q
WrittenOf(seq, q) == Cardinality({i \in 1..Len(seq) : seq[i].from = q})

(***************************************************************************)
(* C21: once sendQ holds a message, handleQueues comes to write a message  *)
(* of sendQ, unless the session is disconnected or a write fails, whatever *)
(* the callers put into hpSendQ and p2pSendQ.                              *)
(***************************************************************************)
C21_DefaultQueueServed ==
    (sendQ # << >>) ~> (WrittenFrom("sendQ") \/ done \/ qpc = "Disconnect")

(***************************************************************************)
(* C22: a write of handleQueues advances p2pSkipCounter by one; in an      *)
(* iteration that began with hpSendQ empty and p2pSendQ not empty a        *)
(* message of sendQ is written only when p2pSkipCounter is a multiple of   *)
(* p2pSkipDivisor; and of p2pSkipDivisor messages written one after the    *)
(* other in such iterations at most one came from sendQ and the others     *)
(* came from p2pSendQ.                                                     *)
(***************************************************************************)
C22_SkipCounterRatio ==
    [][(qpc = "Write" /\ qpc' = "for") =>
          /\ p2pSkipCounter' = (p2pSkipCounter + 1) % p2pSkipDivisor
          /\ (P2PLoaded /\ qmsg.from = "sendQ") => p2pSkipCounter % p2pSkipDivisor = 0
          /\ Len(written') = p2pSkipDivisor =>
                /\ WrittenOf(written', "sendQ") <= 1
                /\ WrittenOf(written', "p2pSendQ") >= p2pSkipDivisor - 1]_vars

\* p2pSkipDivisor messages written one after the other while p2pSendQ was
\* loaded, one of them a message of sendQ
C22_Witness ==
    /\ Len(written) = p2pSkipDivisor
    /\ WrittenOf(written, "sendQ") = 1
    /\ WrittenOf(written, "p2pSendQ") = p2pSkipDivisor - 1


\* the step is a call of HandlePong by handleConn
PongHandled == shakes' = shakes + 1 /\ ret'.op = "HandlePong"

(***************************************************************************)
(* C23: a HandlePong that finds the ping timer fired returns errPingPong   *)
(* and leaves pingSent and lastBlockIndex as they are; the function of the *)
(* timer calls Disconnect only when the timer has fired, the peerDrop      *)
(* carries errPingPong when that call is the first, and once the timer has *)
(* fired the session comes to be disconnected.                             *)
(***************************************************************************)
C23_PingTimeout ==
    /\ [][/\ (PongHandled /\ pingTimer = "fired") =>
                /\ ret'.err = "errPingPong"
                /\ UNCHANGED <<pingSent, lastBlockIndex>>
          /\ (dpc["timer"] = "idle" /\ dpc'["timer"] # "idle") => pingTimer = "fired"
          /\ (closes'.first = "timer" /\ unregister' # unregister) =>
                unregister' = <<"errPingPong">>]_vars
    /\ (pingTimer = "fired") ~> (done /\ closes.conn = 1 /\ Len(unregister) = 1)

\* a Pong was handled after the timer had fired and before the function of
\* the timer has disconnected the session
C23_Witness ==
    /\ pingTimer = "fired"
    /\ ret = PongReturn("errPingPong", 1)
    /\ pingSent = 1
    /\ lastBlockIndex = 0
    /\ dpc["timer"] = "idle"
    /\ ~done

(***************************************************************************)
(* C24, as the claim states it: a HandlePong that follows the disconnect   *)
(* of the session by the ping timer returns errUnexpectedPong.             *)
(***************************************************************************)
C24_UnexpectedPongAfterTimeout ==
    [][(PongHandled /\ unregister = <<"errPingPong">>) =>
           ret'.err = "errUnexpectedPong"]_vars

(***************************************************************************)
(* C24, amended: a HandlePong that follows the disconnect of the session   *)
(* by the ping timer returns errPingPong.                                  *)
(***************************************************************************)
C24_PingPongAfterTimeout ==
    [][(PongHandled /\ unregister = <<"errPingPong">>) => ret'.err = "errPingPong"]_vars

\* the ping timer has disconnected the session, and a Pong was handled after
C24_Witness ==
    /\ unregister = <<"errPingPong">>
    /\ closes.first = "timer"
    /\ dpc["timer"] = "returned"
    /\ ret = PongReturn("errPingPong", 2)
    /\ rerr = Wrapped("errPingPong")
    /\ dpc["reader"] = "returned"

(***************************************************************************)
(* C25: a HandlePong that does not find the timer fired decrements         *)
(* pingSent by one; it returns errUnexpectedPong exactly when pingSent     *)
(* becomes negative, which is exactly when more Pongs have been accepted   *)
(* than SendPing has counted pings; a Pong that finds the timer pending    *)
(* returns nil, clears pingTimer and stores its LastBlockIndex.            *)
(***************************************************************************)
C25_PongAccounting ==
    [][(PongHandled /\ pingTimer # "fired") =>
           /\ pingSent' = pingSent - 1
           /\ (ret'.err = "errUnexpectedPong") = (pingSent' < 0)
           /\ (pingSent' < 0) = (keepalive'.pongs > keepalive'.pings)
           /\ ret'.err \in {"nil", "errUnexpectedPong"}
           /\ pingTimer = "armed" =>
                 /\ ret'.err = "nil"
                 /\ pingTimer' = "nil"
                 /\ lastBlockIndex' = ret'.lastBlockIndex]_vars

\* two pings were sent; the first Pong stopped the timer, the second was
\* accepted without a timer, the third was one too many
C25_Witness ==
    /\ keepalive = [pings |-> 2, pongs |-> 3]
    /\ pingSent = -1
    /\ ret = PongReturn("errUnexpectedPong", 1)
    /\ lastBlockIndex = 2
    /\ pingTimer = "nil"


\* handleConn has decoded a message, or failed to
ReaderStep == rpc = "Decode" /\ (shakes' = shakes + 1 \/ rpc' # rpc)

\* the error of a handler as handleConn hands it to Disconnect
HandlerError(err) == IF Handshaked' THEN Wrapped(err) ELSE err

C28_WrappedLeavesParent ==
    scope.wrapped # 0 => Reads(Heap, scope.parent) = scope.before

(***************************************************************************)
(* C29: a Persist of a DAO whose last Persist returned without an error    *)
(* and that no write has followed changes no store and returns 0.          *)
(***************************************************************************)
C29_SecondPersistFlushesNothing ==
    [][(daoCalls' = daoCalls + 1 /\ daoRet'.op = "Persist" /\ daoRet'.dao = persisted) =>
           /\ daoRet'.n = 0
           /\ daoRet'.err = "nil"
           /\ stores' = stores]_vars

(***************************************************************************)
(* C30: when Persist of a Cached returns, every account that its accounts  *)
(* map holds is read with the same value through the DAO that the Cached   *)
(* was created over.                                                       *)
(***************************************************************************)
C30_PersistedAccountsReadable ==
    [][(daoCalls' = daoCalls + 1 /\ daoRet'.op = "Persist" /\ daos[daoRet'.dao].kind = "Cached"
          /\ daoRet'.err = "nil") =>
           LET cd == daos[daoRet'.dao]
           IN  \A h \in ScriptHashes :
                   maps[cd.accounts][h] # Nil =>
                       Get([stores |-> stores', maps |-> maps', daos |-> daos'], cd.over,
                           "account", h) = maps[cd.accounts][h]]_vars

(***************************************************************************)
(* C31: after MigrateNEP5Balances(from, to) on a Cached, and after the     *)
(* Persist calls on it that follow, GetNEP5Balances on it returns the      *)
(* tracker under to for every account whose balances had it under from,    *)
(* and for no account balances that have it under from.                    *)
(***************************************************************************)
C31_MigratedBalances ==
    (migration.dao # 0 /\ migration.from # migration.to) =>
        \A h \in ScriptHashes :
            /\ Get(Heap, migration.dao, "balances", h) # migration.from
            /\ h \in migration.had => Get(Heap, migration.dao, "balances", h) = migration.to

(***************************************************************************)
(* C39: every Persist returns, with a count or with the error              *)
(* "unsupported lower DAO"; none loops for ever in search of the Simple.   *)
(***************************************************************************)
C39_PersistTerminates ==
    daoRet.op = "Persist" => daoRet.err \in {"nil", "unsupported lower DAO"}

(***************************************************************************)
(* C32: a hash that nothing is stored under has no transaction             *)
(* (HasTransaction returns nil).  When StoreAsTransaction(tx, index)       *)
(* returns, HasTransaction(tx.Hash()) returns ErrAlreadyExists and         *)
(* GetTransaction returns tx with index; with P2PSigExtensions on, for the *)
(* hash of each of its Conflicts attributes GetTransaction returns         *)
(* ErrKeyNotFound and HasTransaction returns ErrHasConflicts.              *)
(***************************************************************************)
C32_DummyTransactions ==
    /\ [](\A h \in TxHashes : ledger.Store[TxKey(h)] = NoBytes =>
              /\ HasTransaction(ledger.Store, h) = "nil"
              /\ GetTransaction(ledger.Store, h).err = "ErrKeyNotFound")
    /\ [][(daoCalls' = daoCalls + 1 /\ daoRet'.op = "StoreAsTransaction") =>
              LET t == daoRet'.hash
                  index == daoRet'.txs[1]
              IN  /\ HasTransaction(ledger'.Store, t) = "ErrAlreadyExists"
                  /\ GetTransaction(ledger'.Store, t) = TxReturn(t, index, "nil")
                  /\ ledger.P2PSigExtensions =>
                         \A i \in 1..Len(Conflicts(t)) :
                             /\ GetTransaction(ledger'.Store, Conflicts(t)[i]).err = "ErrKeyNotFound"
                             /\ HasTransaction(ledger'.Store, Conflicts(t)[i]) = "ErrHasConflicts"]_vars

\* transaction 2 has just been stored with index 258 over the stored
\* transaction 1, which is now the placeholder of a conflict
C32_Witness ==
    /\ ledger.P2PSigExtensions
    /\ daoRet = LedgerReturn("StoreAsTransaction", 2, <<258>>, "nil")
    /\ ledger.Store[TxKey(1)] = <<2, 1, 0, 0, DummyVersion>>
    /\ ledger.Store[TxKey(3)] = <<2, 1, 0, 0, DummyVersion>>
    /\ GetTransaction(ledger.Store, 2) = TxReturn(2, 258, "nil")
    /\ GetTransaction(ledger.Store, 1).err = "ErrKeyNotFound"
    /\ HasTransaction(ledger.Store, 1) = "ErrHasConflicts"
    /\ HasTransaction(ledger.Store, 2) = "ErrAlreadyExists"

(***************************************************************************)
(* C40: when DeleteBlock(h) returns nil, the entry of every transaction of *)
(* the block is deleted (HasTransaction returns nil, GetTransaction        *)
(* ErrKeyNotFound), the Notification entries of each of them and of the    *)
(* block are deleted, and the block entry is the header followed by 0.     *)
(***************************************************************************)
C40_DeleteBlockDeletesAll ==
    [][(daoCalls' = daoCalls + 1 /\ daoRet'.op = "DeleteBlock" /\ daoRet'.err = "nil") =>
           LET h == daoRet'.hash
               txs == daoRet'.txs
           IN  /\ \A i \in 1..Len(txs) :
                      /\ HasTransaction(ledger'.Store, txs[i]) = "nil"
                      /\ GetTransaction(ledger'.Store, txs[i]).err = "ErrKeyNotFound"
                      /\ ledger'.Store[<<"STNotification", txs[i]>>] = NoBytes
               /\ ledger'.Store[<<"STNotification", h>>] = NoBytes
               /\ ledger'.Store[<<"DataBlock", h>>] = <<h, 0>>]_vars


\* C33: the keys of the transfer logs of distinct (acc, index) pairs differ,
\* so PutNEP17TransferLog for one account leaves what GetNEP17TransferLog
\* returns for every other account as it was
C33_TransferLogsApart ==
    [][daoRet'.op = "PutNEP17TransferLog" =>
        \A acc \in Accounts, index \in LogIndexes :
            acc # daoRet'.acc =>
                /\ GetNEP17TransferLog(ledger'.Store, acc, index)
                     = GetNEP17TransferLog(ledger.Store, acc, index)
                /\ getNEP17TransferLogKey(acc, index)
                     # getNEP17TransferLogKey(daoRet'.acc, daoRet'.index)]_vars


\* the trie of the entries with every node resolved, and whether the Store
\* holds every node of it
FullTrie == Build({<<toNibbles(e[1]), e[2]>> : e \in entries})
StoreComplete == NodesOf(FullTrie) \subseteq trie.Store
Present(k) == \E e \in entries : e[1] = k
ValueAt(k) == (CHOOSE e \in entries : e[1] = k)[2]
\* the hashes that a serialized node refers to
Refs(b) ==
    CASE b[1] = "Branch" -> {b[2][i] : i \in DOMAIN b[2]}
      [] b[1] = "Extension" -> {b[3]}
      [] OTHER -> {}

\* C34: for a key of the trie GetProof returns the serialized nodes from the
\* root down to the leaf of the key, each referred to by the one before it,
\* and VerifyProof with the root hash, the key and that proof returns the
\* value of the key and true; for a key that is not in the trie GetProof
\* returns ErrNotFound
C34_ProofsVerify ==
    /\ (trieRet.op = "GetProof" /\ StoreComplete) =>
          LET proof == trieRet.proof
              rh == NodeHash(FullTrie)
          IN  IF Present(trieRet.key)
              THEN /\ trieRet.err = "nil"
                   /\ proof # << >>
                   /\ DoubleSha256(proof[1]) = rh
                   /\ NodeHash(trie.root) = rh
                   /\ \A i \in 1..(Len(proof) - 1) : DoubleSha256(proof[i + 1]) \in Refs(proof[i])
                   /\ proof[Len(proof)] = <<"Leaf", ValueAt(trieRet.key)>>
                   /\ VerifyProof(rh, trieRet.key, proof) = <<ValueAt(trieRet.key), TRUE>>
              ELSE trieRet.err = "ErrNotFound"
    /\ (/\ trieRet.op = "VerifyProof"
        /\ StoreComplete
        /\ trieRet.key = trieRet.proved
        /\ Present(trieRet.key)) =>
          (trieRet.bs = ValueAt(trieRet.key) /\ trieRet.ok)

C34_Witness ==
    /\ trieRet.op = "VerifyProof"
    /\ StoreComplete
    /\ Cardinality(entries) = 2
    /\ trieRet.key = <<0, 16>>
    /\ trieRet.proved = <<0, 16>>
    /\ Present(<<0>>)
    /\ trieRet.bs = <<2>>
    /\ trieRet.ok
    /\ trie.root.type = "Extension"
    /\ trie.root.next.type = "Branch"
    /\ trie.root.next.Children[lastChild + 1].type = "Hash"
    /\ trie.root.next.Children[2].type = "Extension"
    /\ trie.root.next.Children[2].next = LeafNode(<<2>>)


\* the tree of a node with every Hash node that the store resolves replaced
\* by its node
RECURSIVE Resolved(_, _)
Resolved(store, n) ==
    CASE n.type = "Hash" ->
            IF ~IsEmpty(n) /\ getFromStore(store, n.hash).err = "nil"
            THEN Resolved(store, getFromStore(store, n.hash).node)
            ELSE n
      [] n.type = "Branch" ->
            BranchNode([i \in 1..childrenCount |-> Resolved(store, n.Children[i])])
      [] n.type = "Extension" -> ExtensionNode(n.key, Resolved(store, n.next))
      [] OTHER -> n
\* the positions of the child slots of a node at pos
ChildPos(n, pos, i) == Append(pos, IF n.type = "Branch" THEN i - 1 ELSE 0)
RECURSIVE Flatten(_)
Flatten(ss) == IF ss = << >> THEN << >> ELSE Head(ss) \o Flatten(Tail(ss))
\* the nodes of a tree that are no Hash nodes, parents before their children
\* and the children in the order of their slots
RECURSIVE PreOrder(_, _)
PreOrder(n, pos) ==
    IF n.type = "Hash" THEN << >>
    ELSE <<Visit(n, pos)>>
            \o Flatten([i \in DOMAIN ChildrenOf(n) |->
                          PreOrder(ChildrenOf(n)[i], ChildPos(n, pos, i))])
\* a tree with the nodes at the positions outside keep replaced by Hash nodes
RECURSIVE Unresolved(_, _, _)
Unresolved(n, pos, keep) ==
    CASE n.type = "Hash" -> n
      [] pos \notin keep -> HashNode(NodeHash(n))
      [] n.type = "Branch" ->
            BranchNode([i \in 1..childrenCount |->
                          Unresolved(n.Children[i], ChildPos(n, pos, i), keep)])
      [] n.type = "Extension" ->
            ExtensionNode(n.key, Unresolved(n.next, ChildPos(n, pos, 1), keep))
      [] OTHER -> n
Halted == trieRet.stop > 0 /\ Len(trieRet.visited) = trieRet.stop

\* C35: Traverse passes the resolved nodes to process in pre-order; once
\* process has returned true it is not called again, Traverse returns nil,
\* and the root is the tree in which the nodes that were resolved before and
\* the nodes passed to process are resolved and every other one is a Hash
\* node; no Hash node is passed to process
C35_TraverseHalts ==
    trieRet.op = "Traverse" =>
        LET all == PreOrder(Resolved(trie.Store, trieRet.root), << >>)
            before == {all[i].pos : i \in {i \in DOMAIN all :
                          all[i] \in {PreOrder(trieRet.root, << >>)[j] :
                                        j \in DOMAIN PreOrder(trieRet.root, << >>)}}}
            passed == {trieRet.visited[i].pos : i \in DOMAIN trieRet.visited}
        IN  /\ \A i \in DOMAIN trieRet.visited : trieRet.visited[i].type # "Hash"
            /\ Len(trieRet.visited) <= Len(all)
            /\ trieRet.visited = SubSeq(all, 1, Len(trieRet.visited))
            /\ trieRet.stop > 0 => Len(trieRet.visited) <= trieRet.stop
            /\ Halted =>
                  /\ trieRet.err = "nil"
                  /\ trie.root = Unresolved(Resolved(trie.Store, trieRet.root), << >>,
                                            before \cup passed)
            /\ (trieRet.err = "nil" /\ ~Halted) => trieRet.visited = all

C35_Witness ==
    /\ trieRet.op = "Traverse"
    /\ StoreComplete
    /\ trieRet.stop = 3
    /\ Len(trieRet.visited) = 3
    /\ trieRet.err = "nil"
    /\ trieRet.root.type = "Hash"
    /\ trie.root.type = "Branch"
    /\ trie.root.Children[1].type = "Extension"
    /\ trie.root.Children[1].next.type = "Leaf"
    /\ trie.root.Children[2].type = "Hash"
    /\ ~IsEmpty(trie.root.Children[2])
    /\ IsEmpty(trie.root.Children[3])


C38_PingsTimed ==
    (~done /\ pingSent > 0) => pingTimer \in {"armed", "fired"}


\* C37: an Add(t) that returns an error leaves ContainsKey(t.Hash()), Count
\* and the verified transactions as they were, and a Remove(t.Hash()) that
\* follows it removes no other transaction from the pool
C37_FailedAddChangesNothing ==
    [][/\ (calls' = calls + 1 /\ last'.op = "Add" /\ last'.err # "nil") =>
            /\ containsKey(verifiedMap', last'.txn) = containsKey(verifiedMap, last'.txn)
            /\ Len(verifiedTxes') = Len(verifiedTxes)
            /\ verifiedTxes' = verifiedTxes
       /\ (/\ calls' = calls + 1
           /\ last.op = "Add" /\ last.err # "nil"
           /\ last'.op = "Remove" /\ last'.txn = last.txn) =>
            ListHashes(verifiedTxes) \ {last.txn} \subseteq ListHashes(verifiedTxes')]_vars

====
